---------------------------- MODULE Spec2Model ----------------------------
(***************************************************************************)
(* homebridge-solaredge-accfactory: the SolarEdgeAccfactory platform.      *)
(*                                                                         *)
(* The model follows the platform class of src/unnamed/part_000 (the       *)
(* revision carrying VERSION 2025.06.15): the per-connection reconnect     *)
(* loop, #connect, #subscribeREST, #processPostSubscribe, #processData and *)
(* the shutdown handler.  src/src/index.js is the revision of 18/10/2024   *)
(* of the same class.                                                      *)
(*                                                                         *)
(* Strings are sequences of one-character strings, so that toUpperCase is  *)
(* a real conversion.  Power values are fixed-point numbers in tenths      *)
(* (35 stands for 3.5).  A network call is one step that draws its outcome *)
(* from FetchOutcomes; time is not modelled, a timer is a pending delay.   *)
(***************************************************************************)
EXTENDS Integers, Sequences, FiniteSets, TLC

\* ------------------------------------------------------------------ values

\* JavaScript's undefined, where a string is expected.
Undefined == <<"undefined">>

\* String.prototype.toUpperCase, on the letters a to z.
LowerCase ==
    << "a", "b", "c", "d", "e", "f", "g", "h", "i", "j", "k", "l", "m",
       "n", "o", "p", "q", "r", "s", "t", "u", "v", "w", "x", "y", "z" >>

UpperCase ==
    << "A", "B", "C", "D", "E", "F", "G", "H", "I", "J", "K", "L", "M",
       "N", "O", "P", "Q", "R", "S", "T", "U", "V", "W", "X", "Y", "Z" >>

\* The upper-case letter of every lower-case letter.
UpperOf ==
    [ch \in {LowerCase[i] : i \in DOMAIN LowerCase} |->
        UpperCase[CHOOSE i \in DOMAIN LowerCase : LowerCase[i] = ch]]

ToUpperChar(ch) == IF ch \in DOMAIN UpperOf THEN UpperOf[ch] ELSE ch

toUpperCase(s) == [i \in DOMAIN s |-> ToUpperChar(s[i])]

\* String.prototype.replace(/-/g, '.')
ReplaceDash(s) == [i \in DOMAIN s |-> IF s[i] = "-" THEN "." ELSE s[i]]


\* ------------------------------------------------------- remote API bodies

\* const FETCHURLS = ['/inventory.json', '/currentPowerFlow.json']
FETCHURLS == {"/inventory.json", "/currentPowerFlow.json"}

\* How a network call with its body decoding can end: response.ok with a body
\* that decodes, a transport failure or timeout, a non-success HTTP status, or
\* a body response.json() rejects.  Only "ok" reaches the code after the await.
FetchOutcomes == {"ok", "transport", "status", "json"}

\* The site ids the account can list.
SiteIds == {1, 2}

\* site.peakPower of each site, in tenths of the unit of its power flow.
PeakPowerOf(id) == IF id = 1 THEN 50 ELSE 0

\* site.location.city of each site: site 2 has no city.
CityOf(id) == IF id = 1 THEN <<"O", "s", "l", "o">> ELSE Undefined

\* One entry of data.sites.site.
SiteOf(id) == [id |-> id, peakPower |-> PeakPowerOf(id), city |-> CityOf(id)]

\* data.sites.site of a site-list response: the listed sites, without
\* repetition, in the order the API returns them.
SiteLists == {<<>>, <<1>>, <<2>>, <<1, 2>>, <<2, 1>>}

\* One entry of Inventory.inverters.
Inverter(sn, name, version) == [SN |-> sn, name |-> name, cpuVersion |-> version]

\* Inventory of an inventory.json body for a site: inverters may be missing
\* (isArray FALSE), an inverter may lack its cpuVersion, and its name may be
\* empty.
InventoriesOf(id) ==
    IF id = 1
    THEN { [isArray |-> TRUE,
            inverters |-> << Inverter(<<"a", "1">>, <<"R", "o", "o", "f", "#", "1">>,
                                      <<"4", "-", "1">>),
                             Inverter(<<"B", "2">>, << >>, <<"4", "-", "1">>) >>],
           [isArray |-> TRUE,
            inverters |-> << Inverter(<<"A", "1">>, <<"R", "o", "o", "f", "#", "1">>,
                                      <<"4", "-", "2">>) >>],
           [isArray |-> TRUE,
            inverters |-> << Inverter(<<"a", "1">>, <<"R", "o", "o", "f", "#", "1">>,
                                      Undefined) >>] }
    ELSE { [isArray |-> TRUE,
            inverters |-> << Inverter(<<"c", "3">>, <<"_", "S", "h", "e", "d", ".">>,
                                      <<"3", "-", "9">>) >>],
           [isArray |-> FALSE, inverters |-> << >>] }

\* A flow node of siteCurrentPowerFlow; currentPower may be absent.
Node(has, power) == [hasPower |-> has, currentPower |-> power]

\* siteCurrentPowerFlow of a currentPowerFlow.json body.
PowerFlows ==
    { [unit |-> <<"k", "W">>, GRID |-> Node(TRUE, 12), PV |-> Node(TRUE, 35),
       LOAD |-> Node(TRUE, 23),
       connections |-> << [from |-> <<"P", "V">>, to |-> <<"L", "o", "a", "d">>],
                          [from |-> <<"L", "O", "A", "D">>, to |-> <<"G", "r", "i", "d">>] >>],
      [unit |-> <<"w">>, GRID |-> Node(TRUE, 40), PV |-> Node(TRUE, 0),
       LOAD |-> Node(FALSE, 0),
       connections |-> << [from |-> <<"G", "R", "I", "D">>, to |-> <<"L", "O", "A", "D">>] >>] }

\* --------------------------------------------------------------- Normalizer

\* Mutant of unitMultiplier: the unit is compared as it was received.
unitMultiplierExactCase(powerflow) ==
    IF powerflow.unit # Undefined
    THEN LET unit == powerflow.unit
         IN  IF unit = <<"M", "W">> THEN 1000000
             ELSE IF unit = <<"W">> THEN 1
             ELSE 1000
    ELSE 1000

\* let unitMultiplier: 1000 unless powerflow.unit is a string that reads MW or
\* W once it is upper-cased.
unitMultiplier(powerflow) ==
    IF powerflow.unit # Undefined
    THEN LET unit == toUpperCase(powerflow.unit)
         IN  IF unit = <<"M", "W">> THEN 1000000
             ELSE IF unit = <<"W">> THEN 1
             ELSE 1000
    ELSE 1000

\* powerflow[key].currentPower *= unitMultiplier, where currentPower is defined
ScaleNode(node, multiplier) ==
    IF node.hasPower THEN [node EXCEPT !.currentPower = @ * multiplier] ELSE node

\* The clone of data.powerflow with GRID, PV and LOAD scaled.
ScalePowerflow(powerflow, multiplier) ==
    [powerflow EXCEPT !.GRID = ScaleNode(@, multiplier),
                      !.PV = ScaleNode(@, multiplier),
                      !.LOAD = ScaleNode(@, multiplier)]

\* \p{L}, on the letters a to z and A to Z
Letters ==
    {LowerCase[i] : i \in DOMAIN LowerCase} \cup {UpperCase[i] : i \in DOMAIN UpperCase}

IsLetter(ch) == ch \in Letters

\* \p{N}, on the digits 0 to 9
IsNumber(ch) == ch \in {"0", "1", "2", "3", "4", "5", "6", "7", "8", "9"}

\* Mutant of IsNameChar: the hyphen is removed with the other characters.
IsNameCharNoHyphen(ch) ==
    IsLetter(ch) \/ IsNumber(ch) \/ ch \in {" ", "u2019", ".", ","}

\* [^\p{L}\p{N}\p{Z}\u2019.,-] is what is removed; the space stands for
\* \p{Z}, and the one-character string of U+2019 is written "u2019".
IsNameChar(ch) ==
    IsLetter(ch) \/ IsNumber(ch) \/ ch \in {" ", "u2019", ".", ",", "-"}

\* Mutant of StripLeading: one leading character at most is removed.
StripLeadingOnce(s) ==
    IF s = << >> \/ IsLetter(Head(s)) \/ IsNumber(Head(s)) THEN s
    ELSE Tail(s)

\* replace(/^[^\p{L}\p{N}]*/gu, '')
RECURSIVE StripLeading(_)
StripLeading(s) ==
    IF s = << >> \/ IsLetter(Head(s)) \/ IsNumber(Head(s)) THEN s
    ELSE StripLeading(Tail(s))

\* replace(/[^\p{L}\p{N}]+$/gu, '')
RECURSIVE StripTrailing(_)
StripTrailing(s) ==
    IF s = << >> \/ IsLetter(s[Len(s)]) \/ IsNumber(s[Len(s)]) THEN s
    ELSE StripTrailing(SubSeq(s, 1, Len(s) - 1))

\* makeHomeKitName(nameToMakeValid), for a string
makeHomeKitName(nameToMakeValid) ==
    StripTrailing(StripLeading(SelectSeq(nameToMakeValid, IsNameChar)))

\* location, description and the argument of makeHomeKitName in the callback
\* of inverters.forEach.
DescriptionOf(data, inverter) ==
    LET location == IF data.site.city # Undefined THEN data.site.city ELSE << >>
        description == IF inverter.name = << >> THEN location ELSE inverter.name
    IN  makeHomeKitName(IF location = << >> THEN description
                        ELSE description \o <<" ", "-", " ">> \o location)

\* this.config after the constructor: options.eveHistory, and devices, which
\* maps a serial number to the eveHistory of its entry.
VARIABLE config

\* Mutant of eveHistoryOf: only the option of the account is read.
eveHistoryOfOptionOnly(serial) == config.options.eveHistory = TRUE

\* this.config.options.eveHistory === true ||
\* this.config?.devices?.[serial]?.eveHistory === true
eveHistoryOf(serial) ==
    \/ config.options.eveHistory = TRUE
    \/ /\ serial \in DOMAIN config.devices
       /\ config.devices[serial] = TRUE

\* devices[serial] = {...} for one inverter of a cached site.
DeviceOf(data, inverter, powerflow, multiplier) ==
    [excluded |-> FALSE,
     serialNumber |-> toUpperCase(inverter.SN),
     eveHistory |-> eveHistoryOf(toUpperCase(inverter.SN)),
     softwareVersion |-> ReplaceDash(inverter.cpuVersion),
     siteid |-> data.site.id,
     description |-> DescriptionOf(data, inverter),
     peakPower |-> data.site.peakPower * multiplier,
     powerflow |-> powerflow,
     online |-> TRUE]

\* devices[serial] = record: a new key is appended, an existing key keeps its
\* place (Object.values lists keys in insertion order).
PutDevice(devices, record) ==
    IF \E i \in DOMAIN devices : devices[i].serialNumber = record.serialNumber
    THEN [i \in DOMAIN devices |->
            IF devices[i].serialNumber = record.serialNumber THEN record ELSE devices[i]]
    ELSE Append(devices, record)

RECURSIVE AddInverters(_, _, _, _, _)
AddInverters(data, inverters, powerflow, multiplier, devices) ==
    IF inverters = << >> THEN devices
    ELSE AddInverters(data, Tail(inverters), powerflow, multiplier,
                      PutDevice(devices, DeviceOf(data, Head(inverters), powerflow, multiplier)))

\* The body of Object.values(this.#rawData).forEach for one cached site.
AddSite(data, devices) ==
    LET multiplier == unitMultiplier(data.powerflow)
        powerflow == ScalePowerflow(data.powerflow, multiplier)
    IN  IF data.inventory.isArray
        THEN AddInverters(data, data.inventory.inverters, powerflow, multiplier, devices)
        ELSE devices

Min(S) == CHOOSE x \in S : \A y \in S : x <= y

\* Object.values of an object keyed by site id: integer keys in ascending order.
RECURSIVE AddSites(_, _, _)
AddSites(cache, ids, devices) ==
    IF ids = {} THEN devices
    ELSE LET id == Min(ids)
         IN  AddSites(cache, ids \ {id}, AddSite(cache[id], devices))

\* inverter.SN.toUpperCase() and inverter.cpuVersion.replace() throw a TypeError
\* on an inverter without that field.
InverterThrows(inverter) == inverter.SN = Undefined \/ inverter.cpuVersion = Undefined

\* Mutant of processData: GRID, PV and LOAD are scaled in data.powerflow itself,
\* not in a clone of it.
processDataInPlace(cache) ==
    [threw |-> \E id \in DOMAIN cache :
                  /\ cache[id].inventory.isArray
                  /\ \E i \in DOMAIN cache[id].inventory.inverters :
                        InverterThrows(cache[id].inventory.inverters[i]),
     devices |-> AddSites(cache, DOMAIN cache, << >>),
     rawData |-> [id \in DOMAIN cache |->
                    [cache[id] EXCEPT !.powerflow =
                        ScalePowerflow(@, unitMultiplier(@))]]]

\* #processData: the device records of the whole cache, and the cache as the
\* pass leaves it (the power flow is cloned, so the cache is not touched).
\* threw: the pass ended in a TypeError and returned nothing.
processData(cache) ==
    [threw |-> \E id \in DOMAIN cache :
                  /\ cache[id].inventory.isArray
                  /\ \E i \in DOMAIN cache[id].inventory.inverters :
                        InverterThrows(cache[id].inventory.inverters[i]),
     devices |-> AddSites(cache, DOMAIN cache, << >>),
     rawData |-> cache]


\* ----------------------------------------------------------- DeviceRegistry

\* HomeKitDevice.generateUUID(PLUGIN_NAME, api, serialNumber), and the uuid of
\* the SolarInverter created for that serial number: a function of the serial.
generateUUID(serialNumber) == <<"uuid">> \o serialNumber

\* Mutant of TrackDevice: an excluded device that is not tracked yet is only
\* logged, and stays untracked.
TrackDeviceExcludedUntracked(acc, deviceData, emitter) ==
    LET serial == deviceData.serialNumber
        create == serial \notin DOMAIN acc.trackedDevices /\ ~deviceData.excluded
        t2 == IF create
              THEN acc.trackedDevices @@
                   (serial :> [uuid |-> <<"uuid">> \o serial, exclude |-> FALSE])
              ELSE acc.trackedDevices
        c2 == IF create
              THEN Append(acc.calls, [call |-> "instantiate", uuid |-> <<"uuid">> \o serial,
                                      deviceData |-> deviceData])
              ELSE acc.calls
        emit == ~deviceData.excluded /\ serial \in DOMAIN t2 /\ emitter
        c3 == IF emit
              THEN Append(c2, [call |-> "update", uuid |-> t2[serial].uuid,
                               deviceData |-> deviceData])
              ELSE c2
    IN  [trackedDevices |-> t2, calls |-> c3]

\* The body of the forEach of #processPostSubscribe for one device record.
\* acc holds the tracked-device map and the calls made so far in this pass:
\* instantiate (new SolarInverter(...).add(...)) and update (emit of
\* HomeKitDevice.UPDATE to a uuid), in call order.
TrackDevice(acc, deviceData, emitter) ==
    LET serial == deviceData.serialNumber
        untracked == serial \notin DOMAIN acc.trackedDevices
        \* first if: not tracked before, and excluded
        t1 == IF untracked /\ deviceData.excluded
              THEN acc.trackedDevices @@
                   (serial :> [uuid |-> generateUUID(serial), exclude |-> TRUE])
              ELSE acc.trackedDevices
        \* second if: (still) not tracked, and not excluded
        create == serial \notin DOMAIN t1 /\ ~deviceData.excluded
        t2 == IF create
              THEN t1 @@ (serial :> [uuid |-> generateUUID(serial), exclude |-> FALSE])
              ELSE t1
        c2 == IF create
              THEN Append(acc.calls, [call |-> "instantiate", uuid |-> generateUUID(serial),
                                      deviceData |-> deviceData])
              ELSE acc.calls
        \* third if: the record is not excluded and the serial is tracked
        emit == ~deviceData.excluded /\ serial \in DOMAIN t2 /\ emitter
        c3 == IF emit
              THEN Append(c2, [call |-> "update", uuid |-> t2[serial].uuid,
                               deviceData |-> deviceData])
              ELSE c2
    IN  [trackedDevices |-> t2, calls |-> c3]

RECURSIVE TrackDevices(_, _, _)
TrackDevices(acc, devices, emitter) ==
    IF devices = << >> THEN acc
    ELSE TrackDevices(TrackDevice(acc, Head(devices), emitter), Tail(devices), emitter)

\* #processPostSubscribe over the records of one normalization result.
\* emitter: this.#eventEmitter is still defined (it is undefined after shutdown).
processPostSubscribe(tracked, devices, emitter) ==
    TrackDevices([trackedDevices |-> tracked, calls |-> << >>], devices, emitter)


\* ------------------------------------------------------------------- state

\* const SUBSCRIBEINTERVAL = 1000 * 60 * 10
SUBSCRIBEINTERVAL == 600000

\* The keys of this.#connections: the constructor adds one connection, under
\* a random uuid.
Connections == {"uuid1"}

\* Cap of the counter of consecutive authorisation failures (the counter
\* saturates; the failures themselves are not limited).
MaxFailures == 4

\* Cap of the counter of instantiate calls per serial number (saturating).
MaxInstantiate == 2

\* Cap of the counters of #connect calls in flight and of #subscribeREST
\* chains alive (saturating).
MaxChains == 2

\* Cap of the counter of requests of one endpoint of one site in one cycle
\* (saturating).
MaxRequests == 2

VARIABLES
    launched,        \* didFinishLaunching has been handled
    eventEmitter,    \* this.#eventEmitter is defined (FALSE after shutdown)
    connections,     \* this.#connections: uuid -> [authorised]
    reconnectDelay,  \* let reconnectDelay of each connection's reconnectLoop
    reconnect,       \* where each reconnectLoop is: [pc, delay]
    poll,            \* where each #subscribeREST chain is: [pc, sites, pending,
                     \*   tempObject, delay], and failed: the requests of the
                     \*   current site that ended in the catch
    rawData,         \* this.#rawData: site id -> snapshot
    trackedDevices,  \* this.#trackedDevices: serial -> [uuid, exclude]
    failures,        \* history: consecutive failed #connect calls per connection
    cycle,           \* history, per connection, of its current cycle: done maps a
                     \*   site handled so far to the number of its requests that
                     \*   succeeded, passes counts the propagation passes
    lastPass,        \* history: the latest propagation pass
    instantiated,    \* history: instantiate calls per serial number
    firstSeen,       \* history: serial -> excluded of its first observed record
    fetchCall,       \* a call of fetchWrapper followed attempt by attempt: where
                     \*   it is, options.retry, options._retryCount, and as
                     \*   history its attempts and the delays it has waited
    services,        \* the characteristics of one SolarInverter, and as history
                     \*   its latest update
    homeKitName,     \* a name handed to makeHomeKitName: the argument of the
                     \*   first call, the latest result, the number of calls
    chains           \* history, per connection: the #connect calls in flight
                     \*   and the #subscribeREST chains that are alive

vars == << launched, eventEmitter, connections, reconnectDelay, reconnect, poll,
           rawData, trackedDevices, failures, cycle, lastPass, instantiated,
           firstSeen, fetchCall, services, config, homeKitName, chains >>

\* No call of fetchWrapper is followed.
NoCall == [pc |-> "none", retry |-> 0, retryCount |-> 0, maxRetries |-> 0,
           outcomes |-> << >>, delays |-> << >>, hasCode |-> FALSE, code |-> 0]

\* The characteristics of a SolarInverter no update has reached: setup says
\* whether setupDevice has created the outlet and battery services.
NoServices ==
    [setup |-> FALSE, on |-> FALSE, outletInUse |-> FALSE,
     batteryLevel |-> [isNaN |-> FALSE, num |-> 0, den |-> 1],
     chargingState |-> "NOT_CHARGING", statusLowBattery |-> "BATTERY_LEVEL_NORMAL",
     lightLevel |-> [defined |-> TRUE, tenths |-> 0],
     updated |-> FALSE, lowBefore |-> "BATTERY_LEVEL_NORMAL", deviceData |-> << >>]

\* An object without keys.
EmptyMap == << >>

NoPoll == [pc |-> "none", sites |-> << >>, pending |-> {}, tempObject |-> EmptyMap,
           failed |-> {}, delay |-> 0]

NoCycle == [done |-> EmptyMap, passes |-> 0, requests |-> EmptyMap]

\* No name has been handed to makeHomeKitName.
NoName == [nameToMakeValid |-> << >>, name |-> << >>, calls |-> 0]

\* this.config.options.eveHistory after the constructor: the configured value
\* if it is a boolean, else true.
ConstructorEveHistory(isBoolean, eveHistory) == IF isBoolean THEN eveHistory ELSE TRUE

\* The configuration without options.eveHistory and without devices.
DefaultConfig ==
    [options |-> [eveHistory |-> ConstructorEveHistory(FALSE, FALSE)], devices |-> EmptyMap]

\* No #connect in flight, no #subscribeREST chain.
NoChains == [connects |-> 0, polls |-> 0]

NoPass == [ran |-> FALSE, site |-> 0, threw |-> FALSE, devices |-> << >>, calls |-> << >>]

Init ==
    /\ launched = FALSE
    /\ eventEmitter = TRUE
    /\ connections = [uuid \in Connections |-> [authorised |-> FALSE]]
    /\ reconnectDelay = [uuid \in Connections |-> 0]
    /\ reconnect = [uuid \in Connections |-> [pc |-> "idle", delay |-> 0]]
    /\ poll = [uuid \in Connections |-> NoPoll]
    /\ rawData = EmptyMap
    /\ trackedDevices = EmptyMap
    /\ failures = [uuid \in Connections |-> 0]
    /\ cycle = [uuid \in Connections |-> NoCycle]
    /\ lastPass = NoPass
    /\ instantiated = EmptyMap
    /\ firstSeen = EmptyMap
    /\ fetchCall = NoCall
    /\ services = NoServices
    /\ config = DefaultConfig
    /\ homeKitName = NoName
    /\ chains = [uuid \in Connections |-> NoChains]


\* ------------------------------------------------------ ConnectionManager

\* Math.min
MathMin(a, b) == IF a <= b THEN a ELSE b

\* Mutant of ReconnectLoopEntry: the loop calls #connect on every run, whatever
\* the authorised flag.
ReconnectLoopEntryAlwaysConnects(authorised, delay) ==
    [delay |-> delay, loop |-> [pc |-> "connecting", delay |-> 0]]

\* reconnectLoop up to its first suspension, for a connection whose authorised
\* flag is `authorised`: an unauthorised connection starts #connect (the
\* loop waits for the authorisation request), any other resets the delay to
\* 15000 and sets the timer.
ReconnectLoopEntry(authorised, delay) ==
    IF authorised = FALSE
    THEN [delay |-> delay, loop |-> [pc |-> "connecting", delay |-> 0]]
    ELSE [delay |-> 15000, loop |-> [pc |-> "timer", delay |-> 15000]]

\* reconnectDelay after the await of #connect in reconnectLoop.
NextReconnectDelay(authorised, delay) ==
    IF authorised = TRUE THEN 15000 ELSE MathMin(delay * 2, 60000)

\* Mutant of SubscribeEntry: the site-list request is sent whatever the
\* authorised flag.
SubscribeEntryUnguarded(authorised, otherwise) == [NoPoll EXCEPT !.pc = "list"]

\* #subscribeREST up to its first suspension: nothing for a connection that is
\* not authorised, else the site-list request is sent.
SubscribeEntry(authorised, otherwise) ==
    IF authorised # TRUE
    THEN otherwise
    ELSE [NoPoll EXCEPT !.pc = "list"]

\* One more, in a counter that saturates at MaxChains.
Started(n) == MathMin(n + 1, MaxChains)

\* The #connect calls in flight once reconnectLoop has run up to its first
\* suspension and is at `loop`.
Connecting(connects, loop) == IF loop.pc = "connecting" THEN Started(connects) ELSE connects

\* api.on('didFinishLaunching'): for every connection, let reconnectDelay =
\* 15000 and the first call of reconnectLoop.
DidFinishLaunching ==
    /\ launched = FALSE
    /\ launched' = TRUE
    /\ reconnectDelay' = [uuid \in Connections |->
            ReconnectLoopEntry(connections[uuid].authorised, 15000).delay]
    /\ reconnect' = [uuid \in Connections |->
            ReconnectLoopEntry(connections[uuid].authorised, 15000).loop]
    /\ chains' = [uuid \in Connections |->
            [chains[uuid] EXCEPT !.connects = Connecting(@,
                ReconnectLoopEntry(connections[uuid].authorised, 15000).loop)]]
    /\ UNCHANGED << config, homeKitName, fetchCall, services, eventEmitter, connections, poll, rawData, trackedDevices,
                    failures, cycle, lastPass, instantiated, firstSeen >>

\* Mutant of ReconnectTimer: reconnectLoop calls #subscribeREST on every run,
\* after the if that calls #connect.
ReconnectTimerSubscribes(uuid) ==
    /\ reconnect[uuid].pc = "timer"
    /\ LET authorised == connections[uuid].authorised
           entry == ReconnectLoopEntry(authorised, reconnectDelay[uuid])
       IN  /\ reconnectDelay' = [reconnectDelay EXCEPT ![uuid] = entry.delay]
           /\ reconnect' = [reconnect EXCEPT ![uuid] = entry.loop]
           /\ poll' = [poll EXCEPT ![uuid] =
                         IF entry.loop.pc = "timer" THEN SubscribeEntry(authorised, @)
                         ELSE @]
           /\ chains' = [chains EXCEPT
                  ![uuid].connects = Connecting(@, entry.loop),
                  ![uuid].polls =
                      IF entry.loop.pc = "timer" /\ SubscribeEntry(authorised, NoPoll) # NoPoll
                      THEN Started(@) ELSE @]
    /\ UNCHANGED << config, homeKitName, fetchCall, services, launched, eventEmitter,
                    connections, rawData, trackedDevices, failures, cycle, lastPass,
                    instantiated, firstSeen >>

\* The timer of setTimeout(reconnectLoop, reconnectDelay) fires.
ReconnectTimer(uuid) ==
    /\ reconnect[uuid].pc = "timer"
    /\ LET entry == ReconnectLoopEntry(connections[uuid].authorised, reconnectDelay[uuid])
       IN  /\ reconnectDelay' = [reconnectDelay EXCEPT ![uuid] = entry.delay]
           /\ reconnect' = [reconnect EXCEPT ![uuid] = entry.loop]
           /\ chains' = [chains EXCEPT ![uuid].connects = Connecting(@, entry.loop)]
    /\ UNCHANGED << config, homeKitName, fetchCall, services, launched, eventEmitter, connections, poll, rawData, trackedDevices,
                    failures, cycle, lastPass, instantiated, firstSeen >>

\* Mutant of ConnectDone: reconnectLoop sets its timer only after an
\* authorisation that succeeded.
ConnectDoneFailureEndsLoop(uuid, outcome) ==
    /\ reconnect[uuid].pc = "connecting"
    /\ LET authorised == (outcome = "ok")
           delay == NextReconnectDelay(authorised, reconnectDelay[uuid])
       IN  /\ connections' = [connections EXCEPT ![uuid].authorised = authorised]
           /\ poll' = [poll EXCEPT ![uuid] = SubscribeEntry(authorised, @)]
           /\ cycle' = [cycle EXCEPT ![uuid] =
                          IF authorised THEN NoCycle ELSE @]
           /\ reconnectDelay' = [reconnectDelay EXCEPT ![uuid] = delay]
           /\ reconnect' = [reconnect EXCEPT ![uuid] =
                              IF authorised THEN [pc |-> "timer", delay |-> delay]
                              ELSE [pc |-> "idle", delay |-> 0]]
           /\ failures' = [failures EXCEPT ![uuid] =
                             IF authorised THEN 0 ELSE MathMin(@ + 1, MaxFailures)]
           /\ chains' = [chains EXCEPT
                  ![uuid].connects = @ - 1,
                  ![uuid].polls = IF SubscribeEntry(authorised, NoPoll) # NoPoll
                                  THEN Started(@) ELSE @]
    /\ UNCHANGED << config, homeKitName, fetchCall, services, launched, eventEmitter, rawData, trackedDevices, lastPass,
                    instantiated, firstSeen >>

\* Mutant of ConnectDone: #connect sets the authorised flag once fetchWrapper
\* has returned a response, whatever its status, and before it decodes the body.
ConnectDoneAnyResponse(uuid, outcome) ==
    /\ reconnect[uuid].pc = "connecting"
    /\ LET authorised == (outcome \in {"ok", "status", "json"})
           delay == NextReconnectDelay(authorised, reconnectDelay[uuid])
       IN  /\ connections' = [connections EXCEPT ![uuid].authorised = authorised]
           /\ poll' = [poll EXCEPT ![uuid] = SubscribeEntry(authorised, @)]
           /\ cycle' = [cycle EXCEPT ![uuid] =
                          IF authorised THEN NoCycle ELSE @]
           /\ reconnectDelay' = [reconnectDelay EXCEPT ![uuid] = delay]
           /\ reconnect' = [reconnect EXCEPT ![uuid] = [pc |-> "timer", delay |-> delay]]
           /\ failures' = [failures EXCEPT ![uuid] =
                             IF authorised THEN 0 ELSE MathMin(@ + 1, MaxFailures)]
           /\ chains' = [chains EXCEPT
                  ![uuid].connects = @ - 1,
                  ![uuid].polls = IF SubscribeEntry(authorised, NoPoll) # NoPoll
                                  THEN Started(@) ELSE @]
    /\ UNCHANGED << config, homeKitName, fetchCall, services, launched, eventEmitter, rawData,
                    trackedDevices, lastPass, instantiated, firstSeen >>

\* The authorisation request of #connect ends with `outcome`: #connect sets
\* the authorised flag, and reconnectLoop goes on after its await: it calls
\* #subscribeREST, updates reconnectDelay and sets its timer.
ConnectDone(uuid, outcome) ==
    /\ reconnect[uuid].pc = "connecting"
    /\ LET authorised == (outcome = "ok")
           delay == NextReconnectDelay(authorised, reconnectDelay[uuid])
       IN  /\ connections' = [connections EXCEPT ![uuid].authorised = authorised]
           /\ poll' = [poll EXCEPT ![uuid] = SubscribeEntry(authorised, @)]
           /\ cycle' = [cycle EXCEPT ![uuid] =
                          IF authorised THEN NoCycle ELSE @]
           /\ reconnectDelay' = [reconnectDelay EXCEPT ![uuid] = delay]
           /\ reconnect' = [reconnect EXCEPT ![uuid] = [pc |-> "timer", delay |-> delay]]
           /\ failures' = [failures EXCEPT ![uuid] =
                             IF authorised THEN 0 ELSE MathMin(@ + 1, MaxFailures)]
           /\ chains' = [chains EXCEPT
                  ![uuid].connects = @ - 1,
                  ![uuid].polls = IF SubscribeEntry(authorised, NoPoll) # NoPoll
                                  THEN Started(@) ELSE @]
    /\ UNCHANGED << config, homeKitName, fetchCall, services, launched, eventEmitter, rawData, trackedDevices, lastPass,
                    instantiated, firstSeen >>


\* ------------------------------------------------------ SiteDataAggregator

\* Mutant of PollScheduled: #subscribeREST ends without setting its timer.
PollNotScheduled == NoPoll

\* setTimeout(() => this.#subscribeREST(uuid), SUBSCRIBEINTERVAL), the last
\* statement of #subscribeREST.
PollScheduled == [NoPoll EXCEPT !.pc = "timer", !.delay = SUBSCRIBEINTERVAL]

\* The for loop over data.sites.site reaches the sites `sites` (the first is
\* the next to fetch): both endpoint requests of that site are sent, or the
\* loop is over and the next cycle is scheduled.
NextSite(sites) ==
    IF sites = << >>
    THEN PollScheduled
    ELSE [NoPoll EXCEPT !.pc = "fetch", !.sites = sites, !.pending = FETCHURLS]

\* The requests counted so far in the cycle, and those sent when the chain
\* gets to `next`: one for every endpoint pending of the site it fetches.
Requested(requests, next) ==
    IF next.pc # "fetch" THEN requests
    ELSE LET sent == {<<Head(next.sites), url>> : url \in next.pending}
         IN  [k \in DOMAIN requests \cup sent |->
                 IF k \in sent
                 THEN MathMin((IF k \in DOMAIN requests THEN requests[k] ELSE 0) + 1,
                              MaxRequests)
                 ELSE requests[k]]

\* The site-list request of #subscribeREST ends.  A failure is caught by the
\* outer try; a body whose sites.site is no array skips the loop.
ListDone(uuid, outcome, isArray, sites) ==
    /\ poll[uuid].pc = "list"
    /\ LET next == IF outcome = "ok" /\ isArray THEN NextSite(sites) ELSE PollScheduled
       IN  /\ poll' = [poll EXCEPT ![uuid] = next]
           /\ cycle' = [cycle EXCEPT ![uuid].requests = Requested(@, next)]
    /\ UNCHANGED << config, homeKitName, chains, fetchCall, services, launched, eventEmitter,
                    connections, reconnectDelay, reconnect, rawData, trackedDevices,
                    failures, lastPass, instantiated, firstSeen >>

\* The bodies an endpoint of a site can answer with.
BodiesOf(url, id) == IF url = "/inventory.json" THEN InventoriesOf(id) ELSE PowerFlows

\* Mutant of FetchDone: the response of a non-success HTTP status is handed to
\* the caller like a result, and its body is kept.
FetchDoneKeepsStatusBody(uuid, url, outcome, body) ==
    /\ poll[uuid].pc = "fetch"
    /\ url \in poll[uuid].pending
    /\ poll' = [poll EXCEPT ![uuid].pending = @ \ {url},
                            ![uuid].tempObject =
                                IF outcome \in {"ok", "status"} THEN @ @@ (url :> body) ELSE @,
                            ![uuid].failed =
                                IF outcome = "ok" THEN @ ELSE @ \cup {url}]
    /\ UNCHANGED << config, homeKitName, chains, fetchCall, services, launched, eventEmitter, connections, reconnectDelay, reconnect,
                    rawData, trackedDevices, failures, cycle, lastPass, instantiated,
                    firstSeen >>

\* Mutant of FetchDone: the error of a request is not caught in the map
\* callback and reaches the catch around the loop, which ends the cycle.
FetchDoneFailureEndsCycle(uuid, url, outcome, body) ==
    /\ poll[uuid].pc = "fetch"
    /\ url \in poll[uuid].pending
    /\ poll' = [poll EXCEPT ![uuid] =
                  IF outcome = "ok"
                  THEN [@ EXCEPT !.pending = @ \ {url},
                                 !.tempObject = @ @@ (url :> body)]
                  ELSE PollScheduled]
    /\ UNCHANGED << config, homeKitName, chains, fetchCall, services, launched, eventEmitter, connections, reconnectDelay,
                    reconnect, rawData, trackedDevices, failures, cycle, lastPass,
                    instantiated, firstSeen >>

\* Mutant of FetchDone: the map callback has no catch, so the first request
\* that fails rejects Promise.all and the other request is given up.
FetchDoneFailureEndsBoth(uuid, url, outcome, body) ==
    /\ poll[uuid].pc = "fetch"
    /\ url \in poll[uuid].pending
    /\ poll' = [poll EXCEPT ![uuid].pending =
                                IF outcome = "ok" THEN @ \ {url} ELSE {},
                            ![uuid].tempObject =
                                IF outcome = "ok" THEN @ @@ (url :> body) ELSE @,
                            ![uuid].failed =
                                IF outcome = "ok" THEN @ ELSE @ \cup poll[uuid].pending]
    /\ UNCHANGED << config, homeKitName, chains, fetchCall, services, launched, eventEmitter, connections, reconnectDelay,
                    reconnect, rawData, trackedDevices, failures, cycle, lastPass,
                    instantiated, firstSeen >>

\* Mutant of FetchDone: a request that fails is sent once more before its
\* error is caught.
FetchDoneRetriesFailure(uuid, url, outcome, body) ==
    /\ poll[uuid].pc = "fetch"
    /\ url \in poll[uuid].pending
    /\ LET id == Head(poll[uuid].sites)
           again == /\ outcome # "ok"
                    /\ cycle[uuid].requests[<<id, url>>] < MaxRequests
       IN  /\ poll' = [poll EXCEPT ![uuid].pending = IF again THEN @ ELSE @ \ {url},
                                   ![uuid].tempObject =
                                       IF outcome = "ok" THEN @ @@ (url :> body) ELSE @,
                                   ![uuid].failed =
                                       IF outcome = "ok" \/ again THEN @ ELSE @ \cup {url}]
           /\ cycle' = [cycle EXCEPT ![uuid].requests[<<id, url>>] =
                                         IF again THEN @ + 1 ELSE @]
    /\ UNCHANGED << config, homeKitName, chains, fetchCall, services, launched, eventEmitter,
                    connections, reconnectDelay, reconnect, rawData, trackedDevices,
                    failures, lastPass, instantiated, firstSeen >>

\* One of the two endpoint requests of the current site ends: its body is kept
\* in tempObject, or its error is caught (and logged) in the map callback.
FetchDone(uuid, url, outcome, body) ==
    /\ poll[uuid].pc = "fetch"
    /\ url \in poll[uuid].pending
    /\ poll' = [poll EXCEPT ![uuid].pending = @ \ {url},
                            ![uuid].tempObject =
                                IF outcome = "ok" THEN @ @@ (url :> body) ELSE @,
                            ![uuid].failed =
                                IF outcome = "ok" THEN @ ELSE @ \cup {url}]
    /\ UNCHANGED << config, homeKitName, chains, fetchCall, services, launched, eventEmitter, connections, reconnectDelay, reconnect,
                    rawData, trackedDevices, failures, cycle, lastPass, instantiated, firstSeen >>

\* this.#rawData[site.id] = {...}
Snapshot(uuid, id, tempObject) ==
    [connection |-> uuid,
     site |-> SiteOf(id),
     inventory |-> tempObject["/inventory.json"],
     powerflow |-> tempObject["/currentPowerFlow.json"]]

Put(map, key, value) ==
    [k \in DOMAIN map \cup {key} |-> IF k = key THEN value ELSE map[k]]

\* Object.keys(tempObject).length === FETCHURLS.length
HasAllData(tempObject) == Cardinality(DOMAIN tempObject) = Cardinality(FETCHURLS)

\* The instantiate calls of a pass, added to the calls counted so far.
RECURSIVE CountInstantiate(_, _)
CountInstantiate(count, calls) ==
    IF calls = << >> THEN count
    ELSE LET c == Head(calls)
             serial == c.deviceData.serialNumber
             n == IF serial \in DOMAIN count THEN count[serial] ELSE 0
         IN  CountInstantiate(
                 IF c.call = "instantiate"
                 THEN Put(count, serial, MathMin(n + 1, MaxInstantiate))
                 ELSE count,
                 Tail(calls))

\* The first observed excluded value of every serial of a pass, added to
\* those seen before.
RECURSIVE SeeDevices(_, _)
SeeDevices(seen, devices) ==
    IF devices = << >> THEN seen
    ELSE LET d == Head(devices)
         IN  SeeDevices(IF d.serialNumber \in DOMAIN seen THEN seen
                        ELSE Put(seen, d.serialNumber, d.excluded),
                        Tail(devices))

\* Mutant of RunsPass: #processPostSubscribe is called after the for loop,
\* once all sites are done.
RunsPassAfterLoop(commit, rest) == rest = << >>

\* await this.#processPostSubscribe() is the last statement of the if that
\* commits the snapshot, in the body of the for loop: it runs for a site that
\* was committed, whatever sites are left.
RunsPass(commit, rest) == commit

\* Promise.all of the two requests of the current site has settled.  With both
\* bodies the snapshot is committed and #processPostSubscribe runs; a
\* TypeError of #processData leaves the for loop through the outer catch.
\* Then the loop goes on with the next site, or the next cycle is scheduled.
JoinSite(uuid) ==
    /\ poll[uuid].pc = "fetch"
    /\ poll[uuid].pending = {}
    /\ LET id == Head(poll[uuid].sites)
           rest == Tail(poll[uuid].sites)
           commit == HasAllData(poll[uuid].tempObject)
           committed == IF commit
                        THEN Put(rawData, id, Snapshot(uuid, id, poll[uuid].tempObject))
                        ELSE rawData
           data == processData(committed)
           pass == processPostSubscribe(trackedDevices, data.devices, eventEmitter)
           succeeded == Cardinality(FETCHURLS \ poll[uuid].failed)
       IN  IF ~RunsPass(commit, rest)
           THEN /\ poll' = [poll EXCEPT ![uuid] = NextSite(rest)]
                /\ rawData' = committed
                /\ cycle' = [cycle EXCEPT ![uuid].done = Put(@, id, succeeded),
                                          ![uuid].requests = Requested(@, NextSite(rest))]
                /\ UNCHANGED << trackedDevices, lastPass, instantiated, firstSeen >>
           ELSE /\ rawData' = data.rawData
                /\ cycle' = [cycle EXCEPT ![uuid].done = Put(@, id, succeeded),
                                          ![uuid].passes = @ + 1,
                                          ![uuid].requests = Requested(@,
                                              IF data.threw THEN PollScheduled
                                              ELSE NextSite(rest))]
                /\ IF data.threw
                   THEN /\ poll' = [poll EXCEPT ![uuid] = PollScheduled]
                        /\ lastPass' = [ran |-> TRUE, site |-> id, threw |-> TRUE,
                                        devices |-> << >>, calls |-> << >>]
                        /\ UNCHANGED << trackedDevices, instantiated, firstSeen >>
                   ELSE /\ poll' = [poll EXCEPT ![uuid] = NextSite(rest)]
                        /\ trackedDevices' = pass.trackedDevices
                        /\ lastPass' = [ran |-> TRUE, site |-> id, threw |-> FALSE,
                                        devices |-> data.devices, calls |-> pass.calls]
                        /\ instantiated' = CountInstantiate(instantiated, pass.calls)
                        /\ firstSeen' = SeeDevices(firstSeen, data.devices)
    /\ UNCHANGED << config, homeKitName, chains, fetchCall, services, launched, eventEmitter, connections, reconnectDelay, reconnect,
                    failures >>

\* The timer of the last statement of #subscribeREST fires: the next cycle.
PollTimer(uuid) ==
    /\ poll[uuid].pc = "timer"
    /\ poll' = [poll EXCEPT ![uuid] = SubscribeEntry(connections[uuid].authorised, NoPoll)]
    /\ cycle' = [cycle EXCEPT ![uuid] = NoCycle]
    /\ chains' = [chains EXCEPT ![uuid].polls =
                     IF SubscribeEntry(connections[uuid].authorised, NoPoll) = NoPoll
                     THEN @ - 1 ELSE @]
    /\ UNCHANGED << config, homeKitName, fetchCall, services, launched, eventEmitter, connections, reconnectDelay, reconnect,
                    rawData, trackedDevices, failures, lastPass, instantiated, firstSeen >>

\* api.on('shutdown'): the listeners are removed and the caches are emptied.
\* No timer is cleared: the timers of reconnectLoop and #subscribeREST are not
\* kept anywhere.
Shutdown ==
    /\ launched = TRUE
    /\ eventEmitter = TRUE
    /\ eventEmitter' = FALSE
    /\ trackedDevices' = EmptyMap
    /\ rawData' = EmptyMap
    /\ UNCHANGED << config, homeKitName, chains, fetchCall, services, launched, connections, reconnectDelay, reconnect, poll, failures,
                    cycle, lastPass, instantiated, firstSeen >>

Next ==
    \/ DidFinishLaunching
    \/ Shutdown
    \/ \E uuid \in Connections :
          \/ ReconnectTimer(uuid)
          \/ \E outcome \in FetchOutcomes : ConnectDone(uuid, outcome)
          \/ \E outcome \in FetchOutcomes, isArray \in BOOLEAN, sites \in SiteLists :
                ListDone(uuid, outcome, isArray, sites)
          \/ /\ poll[uuid].pc = "fetch"
             /\ \E url \in FETCHURLS, outcome \in FetchOutcomes :
                   \E body \in BodiesOf(url, Head(poll[uuid].sites)) :
                      FetchDone(uuid, url, outcome, body)
          \/ JoinSite(uuid)
          \/ PollTimer(uuid)

Spec == Init /\ [][Next]_vars

\* The event loop runs every callback that is due: the didFinishLaunching
\* event is delivered, a timer of reconnectLoop fires, and an authorisation
\* request ends (fetchWrapper gives up after its timeout).  An authorisation
\* request that is sent again and again succeeds at some time.
Fairness ==
    /\ WF_vars(DidFinishLaunching)
    /\ \A uuid \in Connections :
          /\ WF_vars(ReconnectTimer(uuid))
          /\ WF_vars(\E outcome \in FetchOutcomes : ConnectDone(uuid, outcome))
          /\ SF_vars(ConnectDone(uuid, "ok"))

LiveSpec == Init /\ [][Next]_vars /\ Fairness



\* ------------------------------------------- the DeviceRegistry on its own

\* #processData sets excluded: false on every record, so the assembled
\* platform never hands #processPostSubscribe an excluded record.  What the
\* registry does with one is checked by driving #processPostSubscribe with
\* normalization results whose records carry either value.
RegistrySerials == << <<"A", "1">>, <<"B", "2">>, <<"C", "3">> >>

RegistryRecord(serial, excluded) ==
    [excluded |-> excluded, serialNumber |-> serial, online |-> TRUE]

\* The normalization result that holds, in the order of RegistrySerials, a
\* record of every serial that `choice` does not leave out.
RECURSIVE RegistryResult(_, _)
RegistryResult(choice, i) ==
    IF i > Len(RegistrySerials) THEN << >>
    ELSE IF choice[i] = "absent" THEN RegistryResult(choice, i + 1)
    ELSE << RegistryRecord(RegistrySerials[i], choice[i] = "excluded") >>
         \o RegistryResult(choice, i + 1)

\* The normalization results handed to the registry.
RegistryResults ==
    { RegistryResult(choice, 1) :
        choice \in [DOMAIN RegistrySerials -> {"absent", "excluded", "active"}] }

\* One call of #processPostSubscribe, on the normalization result `devices`.
RegistryPass(devices) ==
    LET pass == processPostSubscribe(trackedDevices, devices, eventEmitter)
    IN  /\ trackedDevices' = pass.trackedDevices
        /\ lastPass' = [ran |-> TRUE, site |-> 0, threw |-> FALSE,
                        devices |-> devices, calls |-> pass.calls]
        /\ instantiated' = CountInstantiate(instantiated, pass.calls)
        /\ firstSeen' = SeeDevices(firstSeen, devices)
        /\ UNCHANGED << config, homeKitName, chains, fetchCall, services, launched, eventEmitter, connections, reconnectDelay, reconnect,
                        poll, rawData, failures, cycle >>

NextRegistry == \E devices \in RegistryResults : RegistryPass(devices)

SpecRegistry == Init /\ [][NextRegistry]_vars

\* ----------------------------------------------- the Normalizer on its own

\* The unit fields a power-flow body is normalized with: the three documented
\* units, other letter cases of them, other strings, and no unit.
NormalizerUnits ==
    { <<"W">>, <<"k", "W">>, <<"M", "W">>, <<"w">>, <<"K", "W">>, <<"m", "W">>,
      <<"m", "w">>, <<"k", "W", "h">>, <<"V", "A">>, <<>>, Undefined }

\* siteCurrentPowerFlow bodies with these units: all three nodes with a
\* currentPower, or LOAD without one.
NormalizerFlows ==
    { [unit |-> unit, GRID |-> Node(TRUE, 12), PV |-> Node(TRUE, 35),
       LOAD |-> Node(hasLoad, IF hasLoad THEN 23 ELSE 0),
       connections |-> << >>] : unit \in NormalizerUnits, hasLoad \in BOOLEAN }

\* The snapshots site id can be cached with.
NormalizerSnapshots(id) ==
    { [connection |-> "uuid1", site |-> SiteOf(id), inventory |-> inventory,
       powerflow |-> powerflow] :
        inventory \in InventoriesOf(id), powerflow \in NormalizerFlows }

\* this.#rawData with site 1, site 2 or both cached.
NormalizerCaches ==
    UNION { [ids -> UNION { NormalizerSnapshots(id) : id \in ids }] :
              ids \in (SUBSET SiteIds) \ {{}} }

\* The configurations the records are derived under: options.eveHistory
\* true, false or not configured, and devices without an entry, or with one
\* entry whose eveHistory is true or false, under the serial number of an
\* inverter in upper case or as the inventory spells it.
NormalizerConfigs ==
    { [options |-> [eveHistory |-> ConstructorEveHistory(isBoolean, eveHistory)],
       devices |-> devices] :
        isBoolean \in BOOLEAN, eveHistory \in BOOLEAN,
        devices \in {EmptyMap} \cup
            { (serial :> override) :
                serial \in {<<"A", "1">>, <<"a", "1">>, <<"C", "3">>},
                override \in BOOLEAN } }

InitNormalizer ==
    /\ launched = TRUE
    /\ eventEmitter = TRUE
    /\ connections = [uuid \in Connections |-> [authorised |-> TRUE]]
    /\ reconnectDelay = [uuid \in Connections |-> 15000]
    /\ reconnect = [uuid \in Connections |-> [pc |-> "timer", delay |-> 15000]]
    /\ poll = [uuid \in Connections |-> PollScheduled]
    /\ rawData \in { cache \in NormalizerCaches :
                        \A id \in DOMAIN cache : cache[id].site.id = id }
    /\ trackedDevices = EmptyMap
    /\ failures = [uuid \in Connections |-> 0]
    /\ cycle = [uuid \in Connections |-> NoCycle]
    /\ lastPass = NoPass
    /\ instantiated = EmptyMap
    /\ firstSeen = EmptyMap
    /\ fetchCall = NoCall
    /\ services = NoServices
    /\ config \in NormalizerConfigs
    /\ homeKitName = NoName
    /\ chains = [uuid \in Connections |-> [NoChains EXCEPT !.polls = 1]]

\* One call of #processData on the cache.
NormalizerPass ==
    LET data == processData(rawData)
    IN  /\ rawData' = data.rawData
        /\ lastPass' = [ran |-> TRUE, site |-> 0, threw |-> data.threw,
                        devices |-> IF data.threw THEN << >> ELSE data.devices,
                        calls |-> << >>]
        /\ UNCHANGED << config, homeKitName, chains, fetchCall, services, launched, eventEmitter, connections, reconnectDelay, reconnect,
                        poll, trackedDevices, failures, cycle, instantiated, firstSeen >>

NextNormalizer == NormalizerPass

SpecNormalizer == InitNormalizer /\ [][NextNormalizer]_vars

\* ---------------------------------------------- fetchWrapper on its own

\* #connect and #subscribeREST call fetchWrapper without options.retry, so in
\* the platform a call is one attempt (one step of Spec).  What fetchWrapper
\* does with a retry budget is checked by following one call, made with a
\* fresh options object, attempt by attempt.

\* Largest options.retry a call is made with.
MaxRetry == 4

\* How one fetch(url, options) can settle: a response with ok true, a rejection
\* (network failure, or the abort of AbortSignal.timeout), or a response whose
\* ok is false, with its status.
FetchResults ==
    { [outcome |-> "ok", status |-> 200],
      [outcome |-> "transport", status |-> 0],
      [outcome |-> "status", status |-> 401],
      [outcome |-> "status", status |-> 503] }

\* if (isNaN(options.retry) === true || options.retry < 1) options.retry = 1
NormalRetry(hasRetry, retry) == IF ~hasRetry \/ retry < 1 THEN 1 ELSE retry

\* fetchWrapper from its entry to await fetch(url, options): arguments that are
\* not valid return undefined at once; options.retry is normalised and
\* options._retryCount starts at 0.
fetchWrapperEntry(valid, hasRetry, retry) ==
    IF ~valid
    THEN [NoCall EXCEPT !.pc = "undefined"]
    ELSE [NoCall EXCEPT !.pc = "attempt",
                        !.retry = NormalRetry(hasRetry, retry),
                        !.maxRetries = NormalRetry(hasRetry, retry)]

\* Mutant of MayRetry: the last retry of the budget is not used.
MayRetryOneLess(retry) == retry > 2

\* if (options.retry > 1)
MayRetry(retry) == retry > 1

\* Mutant of RetryDelay: the exponent is the retry count itself.
RetryDelayDoubled(retryCount) == 500 * 2 ^ retryCount

\* const delay = 500 * 2 ** (options._retryCount - 1), with the count already
\* incremented
RetryDelay(retryCount) == 500 * 2 ^ (retryCount - 1)

\* Mutant of Exhausted: a response that is not ok is returned to the caller.
ExhaustedReturnsResponse(call, result) ==
    IF result.outcome = "status"
    THEN [call EXCEPT !.pc = "returned"]
    ELSE [call EXCEPT !.pc = "thrown"]

\* No retry is left: the error of fetch is thrown again, or an Error with
\* error.code = response.status is thrown.
Exhausted(call, result) ==
    IF result.outcome = "status"
    THEN [call EXCEPT !.pc = "thrown", !.hasCode = TRUE, !.code = result.status]
    ELSE [call EXCEPT !.pc = "thrown"]

\* fetchWrapper after await fetch(url, options) has settled with `result`.
fetchWrapperSettled(call, result) ==
    LET seen == [call EXCEPT !.outcomes = Append(@, result)]
    IN  IF result.outcome = "ok"
        THEN [seen EXCEPT !.pc = "returned"]
        ELSE IF MayRetry(seen.retry)
        THEN [seen EXCEPT !.pc = "wait",
                          !.retry = @ - 1,
                          !.retryCount = @ + 1,
                          !.delays = Append(@, RetryDelay(seen.retryCount + 1))]
        ELSE Exhausted(seen, result)

InitFetch ==
    /\ launched = FALSE
    /\ eventEmitter = TRUE
    /\ connections = [uuid \in Connections |-> [authorised |-> FALSE]]
    /\ reconnectDelay = [uuid \in Connections |-> 0]
    /\ reconnect = [uuid \in Connections |-> [pc |-> "idle", delay |-> 0]]
    /\ poll = [uuid \in Connections |-> NoPoll]
    /\ rawData = EmptyMap
    /\ trackedDevices = EmptyMap
    /\ failures = [uuid \in Connections |-> 0]
    /\ cycle = [uuid \in Connections |-> NoCycle]
    /\ lastPass = NoPass
    /\ instantiated = EmptyMap
    /\ firstSeen = EmptyMap
    /\ fetchCall \in { fetchWrapperEntry(valid, hasRetry, retry) :
                          valid \in BOOLEAN, hasRetry \in BOOLEAN, retry \in 0..MaxRetry }
    /\ services = NoServices
    /\ config = DefaultConfig
    /\ homeKitName = NoName
    /\ chains = [uuid \in Connections |-> NoChains]

\* await fetch(url, options) settles.
AttemptDone(result) ==
    /\ fetchCall.pc = "attempt"
    /\ fetchCall' = fetchWrapperSettled(fetchCall, result)
    /\ UNCHANGED << config, homeKitName, chains, launched, eventEmitter, connections, reconnectDelay, reconnect,
                    poll, rawData, trackedDevices, failures, cycle, lastPass,
                    instantiated, firstSeen, services >>

\* The timer of the delay fires: return fetchWrapper(method, url, options, data),
\* whose entry leaves options.retry (at least 1) and options._retryCount as
\* they are.
DelayDone ==
    /\ fetchCall.pc = "wait"
    /\ fetchCall' = [fetchCall EXCEPT !.pc = "attempt",
                                      !.retry = NormalRetry(TRUE, @)]
    /\ UNCHANGED << config, homeKitName, chains, launched, eventEmitter, connections, reconnectDelay, reconnect,
                    poll, rawData, trackedDevices, failures, cycle, lastPass,
                    instantiated, firstSeen, services >>

NextFetch ==
    \/ \E result \in FetchResults : AttemptDone(result)
    \/ DelayDone

SpecFetch == InitFetch /\ [][NextFetch]_vars

\* Every fetch settles (the platform's requests carry a timeout, or end with
\* the connection), and every timer fires.
LiveSpecFetch ==
    InitFetch /\ [][NextFetch]_vars
    /\ WF_vars(\E result \in FetchResults : AttemptDone(result))
    /\ WF_vars(DelayDone)

\* ------------------------------------- SolarInverter.updateDevice on its own

\* Math.max
MathMax(a, b) == IF a >= b THEN a ELSE b

\* Mutant of scaleValue: an empty source range is not told apart, and the
\* division of zero by zero gives NaN.
scaleValueUnguarded(value, sourceMin, sourceMax, targetMin, targetMax) ==
    IF ~value.hasPower \/ sourceMax = sourceMin
    THEN [isNaN |-> TRUE, num |-> 0, den |-> 1]
    ELSE LET clamped == MathMax(sourceMin, MathMin(sourceMax, value.currentPower))
         IN  [isNaN |-> FALSE,
              num |-> (clamped - sourceMin) * (targetMax - targetMin)
                         + targetMin * (sourceMax - sourceMin),
              den |-> sourceMax - sourceMin]

\* scaleValue(value, sourceMin, sourceMax, targetMin, targetMax), the result as
\* the fraction num / den.  value is a flow node: without currentPower the
\* value is undefined, and Math.min makes it NaN.
scaleValue(value, sourceMin, sourceMax, targetMin, targetMax) ==
    IF sourceMax = sourceMin
    THEN [isNaN |-> FALSE, num |-> targetMin, den |-> 1]
    ELSE IF ~value.hasPower
    THEN [isNaN |-> TRUE, num |-> 0, den |-> 1]
    ELSE LET clamped == MathMax(sourceMin, MathMin(sourceMax, value.currentPower))
         IN  [isNaN |-> FALSE,
              num |-> (clamped - sourceMin) * (targetMax - targetMin)
                         + targetMin * (sourceMax - sourceMin),
              den |-> sourceMax - sourceMin]

\* A flow node of a device record, with its status.
StatusNode(has, power, status) ==
    [hasPower |-> has, currentPower |-> power, status |-> status]

\* One entry of powerflow.connections.
Flow(from, to) == [from |-> from, to |-> to]

\* The powerflow.connections of the device records an inverter is updated
\* with: missing, empty, and lists with at most one of the two edges between
\* load and grid (a site imports or exports), in the letter cases of the API.
ConnectionLists ==
    LET load == <<"L", "o", "a", "d">>
        grid == <<"G", "R", "I", "D">>
        pv == <<"P", "V">>
    IN  { [has |-> FALSE, list |-> << >>],
          [has |-> TRUE, list |-> << >>],
          [has |-> TRUE, list |-> << Flow(pv, load) >>],
          [has |-> TRUE, list |-> << Flow(load, grid) >>],
          [has |-> TRUE, list |-> << Flow(grid, load) >>],
          [has |-> TRUE, list |-> << Flow(pv, load), Flow(load, grid) >>],
          [has |-> TRUE, list |-> << Flow(grid, load), Flow(pv, load) >>],
          [has |-> TRUE, list |-> << Flow(pv, grid), Flow(load, pv) >>] }

\* The device records an inverter is updated with, in tenths of a watt.
InverterUpdates ==
    { [peakPower |-> peakPower,
       powerflow |-> [PV |-> StatusNode(TRUE, power, status),
                      hasConnections |-> c.has, connections |-> c.list]] :
        peakPower \in {0, 50000},
        power \in {0 - 5, 0, 35000, 60000},
        status \in { <<"A", "c", "t", "i", "v", "e">>, <<"I", "d", "l", "e">> },
        c \in ConnectionLists }

\* Mutant of ApplyFlow: from and to are compared as they were received.
ApplyFlowExactCase(battery, flow) ==
    LET exporting == flow.from = <<"L", "O", "A", "D">> /\ flow.to = <<"G", "R", "I", "D">>
        importing == flow.from = <<"G", "R", "I", "D">> /\ flow.to = <<"L", "O", "A", "D">>
        b1 == IF exporting
              THEN [chargingState |-> "CHARGING",
                    statusLowBattery |-> "BATTERY_LEVEL_NORMAL"]
              ELSE battery
    IN  IF importing
        THEN [chargingState |-> "NOT_CHARGING", statusLowBattery |-> "BATTERY_LEVEL_LOW"]
        ELSE b1

\* The callback of deviceData.powerflow.connections.forEach for one flow.
ApplyFlow(battery, flow) ==
    LET exporting == /\ toUpperCase(flow.from) = <<"L", "O", "A", "D">>
                     /\ toUpperCase(flow.to) = <<"G", "R", "I", "D">>
        importing == /\ toUpperCase(flow.from) = <<"G", "R", "I", "D">>
                     /\ toUpperCase(flow.to) = <<"L", "O", "A", "D">>
        b1 == IF exporting
              THEN [chargingState |-> "CHARGING",
                    statusLowBattery |-> "BATTERY_LEVEL_NORMAL"]
              ELSE battery
    IN  IF importing
        THEN [chargingState |-> "NOT_CHARGING", statusLowBattery |-> "BATTERY_LEVEL_LOW"]
        ELSE b1

RECURSIVE ApplyFlows(_, _)
ApplyFlows(battery, flows) ==
    IF flows = << >> THEN battery
    ELSE ApplyFlows(ApplyFlow(battery, Head(flows)), Tail(flows))

\* SolarInverter.updateDevice(deviceData) on the characteristics s.
updateDevice(s, deviceData) ==
    IF ~s.setup THEN s
    ELSE LET pv == deviceData.powerflow.PV
             generating == \/ ~pv.hasPower
                           \/ pv.currentPower # 0
                           \/ toUpperCase(pv.status) = <<"A", "C", "T", "I", "V", "E">>
             battery == ApplyFlows([chargingState |-> "NOT_CHARGING",
                                    statusLowBattery |-> s.statusLowBattery],
                                   IF deviceData.powerflow.hasConnections
                                   THEN deviceData.powerflow.connections ELSE << >>)
         IN  [s EXCEPT !.on = generating,
                       !.outletInUse = generating,
                       !.batteryLevel = scaleValue(pv, 0, deviceData.peakPower, 0, 100),
                       !.chargingState = battery.chargingState,
                       !.statusLowBattery = battery.statusLowBattery,
                       !.lightLevel = IF pv.hasPower /\ pv.currentPower <= 0
                                      THEN [defined |-> TRUE, tenths |-> 0]
                                      ELSE [defined |-> pv.hasPower,
                                            tenths |-> pv.currentPower]]

InitInverter ==
    /\ launched = TRUE
    /\ eventEmitter = TRUE
    /\ connections = [uuid \in Connections |-> [authorised |-> TRUE]]
    /\ reconnectDelay = [uuid \in Connections |-> 15000]
    /\ reconnect = [uuid \in Connections |-> [pc |-> "timer", delay |-> 15000]]
    /\ poll = [uuid \in Connections |-> PollScheduled]
    /\ rawData = EmptyMap
    /\ trackedDevices = EmptyMap
    /\ failures = [uuid \in Connections |-> 0]
    /\ cycle = [uuid \in Connections |-> NoCycle]
    /\ lastPass = NoPass
    /\ instantiated = EmptyMap
    /\ firstSeen = EmptyMap
    /\ fetchCall = NoCall
    /\ services \in { [NoServices EXCEPT !.setup = setup,
                                         !.chargingState = charging,
                                         !.statusLowBattery = low] :
                         setup \in BOOLEAN,
                         charging \in {"NOT_CHARGING", "CHARGING"},
                         low \in {"BATTERY_LEVEL_NORMAL", "BATTERY_LEVEL_LOW"} }
    /\ config = DefaultConfig
    /\ homeKitName = NoName
    /\ chains = [uuid \in Connections |-> [NoChains EXCEPT !.polls = 1]]

\* The inverter gets the update deviceData.
UpdateDevice(deviceData) ==
    /\ services' = [updateDevice(services, deviceData) EXCEPT
                       !.updated = TRUE,
                       !.lowBefore = services.statusLowBattery,
                       !.deviceData = <<deviceData>>]
    /\ UNCHANGED << config, homeKitName, chains, launched, eventEmitter, connections, reconnectDelay, reconnect,
                    poll, rawData, trackedDevices, failures, cycle, lastPass,
                    instantiated, firstSeen, fetchCall >>

NextInverter == \E deviceData \in InverterUpdates : UpdateDevice(deviceData)

SpecInverter == InitInverter /\ [][NextInverter]_vars

\* ------------------------------------------- makeHomeKitName on its own

\* Longest name handed to makeHomeKitName.
MaxNameLen == 4

\* Most calls of makeHomeKitName on one name, each on the result of the last.
MaxCalls == 2

\* The characters of the names: a letter, a digit, the space, U+2019, the
\* full stop, the comma, the hyphen, and a character of no class the
\* expressions name.
NameAlphabet == {"a", "7", " ", "u2019", ".", ",", "-", "#"}

Names == UNION { [1..n -> NameAlphabet] : n \in 0..MaxNameLen }

InitSanitizer ==
    /\ launched = FALSE
    /\ eventEmitter = TRUE
    /\ connections = [uuid \in Connections |-> [authorised |-> FALSE]]
    /\ reconnectDelay = [uuid \in Connections |-> 0]
    /\ reconnect = [uuid \in Connections |-> [pc |-> "idle", delay |-> 0]]
    /\ poll = [uuid \in Connections |-> NoPoll]
    /\ rawData = EmptyMap
    /\ trackedDevices = EmptyMap
    /\ failures = [uuid \in Connections |-> 0]
    /\ cycle = [uuid \in Connections |-> NoCycle]
    /\ lastPass = NoPass
    /\ instantiated = EmptyMap
    /\ firstSeen = EmptyMap
    /\ fetchCall = NoCall
    /\ services = NoServices
    /\ config = DefaultConfig
    /\ homeKitName \in { [nameToMakeValid |-> s, name |-> s, calls |-> 0] : s \in Names }
    /\ chains = [uuid \in Connections |-> NoChains]

\* makeHomeKitName is called on the name, or on the result of its last call.
MakeHomeKitName ==
    /\ homeKitName.calls < MaxCalls
    /\ homeKitName' = [homeKitName EXCEPT !.name = makeHomeKitName(@),
                                          !.calls = @ + 1]
    /\ UNCHANGED << launched, eventEmitter, connections, reconnectDelay, reconnect, poll,
                    rawData, trackedDevices, failures, cycle, lastPass, instantiated,
                    firstSeen, fetchCall, services, config, chains >>

NextSanitizer == MakeHomeKitName

SpecSanitizer == InitSanitizer /\ [][NextSanitizer]_vars

\* ================================================================== claims

\* The step is one of the shutdown handler.
ShutdownStep == eventEmitter /\ ~eventEmitter'

\* The cache entry of site id differs before and after the step.
EntryChanged(id) ==
    \/ (id \in DOMAIN rawData) # (id \in DOMAIN rawData')
    \/ /\ id \in DOMAIN rawData
       /\ id \in DOMAIN rawData'
       /\ rawData'[id] # rawData[id]

\* Connection uuid is at the join of site id with both of its requests
\* answered successfully.
JoinsWithBoth(uuid, id) ==
    /\ poll[uuid].pc = "fetch"
    /\ poll[uuid].pending = {}
    /\ Head(poll[uuid].sites) = id
    /\ poll[uuid].failed = {}

\* C1: a step of the aggregator writes the cache entry of a site only at the
\* join of that site with both the inventory and the power-flow request
\* succeeded; every other step of a cycle (a request ending, a join after a
\* failure, the listing, the timer) leaves the entry as it was, present or
\* absent.  (The shutdown handler, which is no part of a cycle, empties the
\* cache.)
C1_CommitOnlyWithBothFetches ==
    [][ \A id \in SiteIds :
          (EntryChanged(id) /\ ~ShutdownStep) =>
             \E uuid \in Connections :
                /\ JoinsWithBoth(uuid, id)
                /\ rawData'[id].connection = uuid ]_vars

\* C1 witness: a site that has a snapshot from an earlier cycle was skipped in
\* this cycle because exactly one of its two requests failed.
C1_Witness ==
    \E uuid \in Connections : \E id \in DOMAIN cycle[uuid].done :
        /\ cycle[uuid].done[id] = 1
        /\ id \in DOMAIN rawData
        /\ eventEmitter


\* The delay the claimed backoff sequence 15000, 30000, 60000, 60000, ...
\* gives after the k-th consecutive failure.
ClaimedDelay(k) == IF k = 1 THEN 15000 ELSE IF k = 2 THEN 30000 ELSE 60000

\* C2 (as claimed): when the timer of the next authorisation attempt is set
\* after the k-th consecutive failure of a connection, its delay is 15000 for
\* k = 1, 30000 for k = 2 and 60000 for k >= 3; after a success it is 15000.
\* The code doubles reconnectDelay before it sets the timer, so the delays
\* after failures are 30000, 60000, 60000, ...
C2_BackoffAsClaimed ==
    \A uuid \in Connections :
        reconnect[uuid].pc = "timer" =>
            /\ (failures[uuid] >= 1 /\ failures[uuid] < MaxFailures) =>
                  reconnect[uuid].delay = ClaimedDelay(failures[uuid])
            /\ connections[uuid].authorised => reconnect[uuid].delay = 15000


C5_TrackedOnceForLifetime ==
    [][ /\ ~ShutdownStep =>
              \A serial \in DOMAIN trackedDevices :
                 /\ serial \in DOMAIN trackedDevices'
                 /\ trackedDevices'[serial] = trackedDevices[serial]
        /\ \A serial \in DOMAIN instantiated' : instantiated'[serial] <= 1 ]_vars


\* The record's currentPower of one flow node is the cached raw value times
\* the unit multiplier, once.
ScaledOnce(node, raw, multiplier) ==
    /\ node.hasPower = raw.hasPower
    /\ raw.hasPower => node.currentPower = raw.currentPower * multiplier

\* C6: the Normalizer leaves the snapshot cache alone, and scales once.
\* After any step every cache entry is what it was before the step, or it
\* is the snapshot just committed with exactly the bodies the two requests
\* returned (so the pass that follows the commit has not touched it, nor any
\* other entry, however many passes have run over them); and every device
\* record of the latest pass carries, for GRID, PV and LOAD, the cached raw
\* currentPower of its site times the unit multiplier.
C6_NormalizerLeavesCache ==
    /\ [][ \A id \in DOMAIN rawData' :
              \/ id \in DOMAIN rawData /\ rawData'[id] = rawData[id]
              \/ \E uuid \in Connections :
                    /\ JoinsWithBoth(uuid, id)
                    /\ rawData'[id] = Snapshot(uuid, id, poll[uuid].tempObject) ]_vars
    /\ [](\A i \in DOMAIN lastPass.devices :
             LET d == lastPass.devices[i]
             IN  d.siteid \in DOMAIN rawData =>
                   LET raw == rawData[d.siteid].powerflow
                       m == unitMultiplier(raw)
                   IN  /\ ScaledOnce(d.powerflow.GRID, raw.GRID, m)
                       /\ ScaledOnce(d.powerflow.PV, raw.PV, m)
                       /\ ScaledOnce(d.powerflow.LOAD, raw.LOAD, m))

\* C6 witness: site 1 is cached in kW with two inverters, and the commit of
\* site 2 has run one more pass over it: its records still carry 3.5 kW as
\* 3500 W (35000 tenths), and the cache still holds 3.5.
C6_Witness ==
    /\ lastPass.ran /\ ~lastPass.threw /\ lastPass.site = 2
    /\ 1 \in DOMAIN rawData
    /\ Len(rawData[1].inventory.inverters) = 2
    /\ rawData[1].powerflow.unit = <<"k", "W">>
    /\ rawData[1].powerflow.PV.currentPower = 35
    /\ Cardinality({i \in DOMAIN lastPass.devices :
                       /\ lastPass.devices[i].siteid = 1
                       /\ lastPass.devices[i].powerflow.PV.currentPower = 35000}) = 2


\* The multiplier of the claim's table, the unit matched as written.
ClaimedMultiplier(unit) ==
    IF unit = <<"W">> THEN 1
    ELSE IF unit = <<"M", "W">> THEN 1000000
    ELSE 1000

\* The multiplier of the table with the unit matched in any letter case.
AnyCaseMultiplier(unit) ==
    IF unit \in {<<"W">>, <<"w">>} THEN 1
    ELSE IF unit \in {<<"M", "W">>, <<"M", "w">>, <<"m", "W">>, <<"m", "w">>} THEN 1000000
    ELSE 1000

\* Every record of the latest pass carries the peak power and the GRID, PV
\* and LOAD currentPower of its cached site times Multiplier(unit).
RecordsScaledBy(Multiplier(_)) ==
    \A i \in DOMAIN lastPass.devices :
       LET d == lastPass.devices[i]
           raw == rawData[d.siteid]
           m == Multiplier(raw.powerflow.unit)
       IN  /\ d.peakPower = raw.site.peakPower * m
           /\ ScaledOnce(d.powerflow.GRID, raw.powerflow.GRID, m)
           /\ ScaledOnce(d.powerflow.PV, raw.powerflow.PV, m)
           /\ ScaledOnce(d.powerflow.LOAD, raw.powerflow.LOAD, m)

\* C7 as stated: the multiplier is 1 for unit W, 1000 for kW, 1000000 for MW
\* and 1000 for a missing unit or any other string, and it also scales the
\* site's peak power.
C7_MultiplierTable == RecordsScaledBy(ClaimedMultiplier)

\* C7 amended: the unit is matched without regard to letter case: the
\* multiplier is 1 for W or w, 1000000 for MW in any letter case, and 1000 for
\* kW, a missing unit or any other string; it also scales the site's peak power.
C7_MultiplierTableAnyCase == RecordsScaledBy(AnyCaseMultiplier)

\* C7 witness: a site cached with unit mW, PV 3.5 and peak power 5.0 has
\* been normalized by 1000000.
C7_Witness ==
    \E i \in DOMAIN lastPass.devices :
       LET d == lastPass.devices[i]
       IN  /\ rawData[d.siteid].powerflow.unit = <<"m", "W">>
           /\ rawData[d.siteid].powerflow.PV.currentPower = 35
           /\ d.powerflow.PV.currentPower = 35000000
           /\ d.peakPower = 50000000


\* The cycle of connection uuid is over: its next cycle is scheduled.
CycleOver(uuid) == poll[uuid].pc = "timer"

\* The sites committed so far in the current cycle of connection uuid.
CommittedSites(uuid) ==
    {id \in DOMAIN cycle[uuid].done : cycle[uuid].done[id] = Cardinality(FETCHURLS)}

\* C8 as stated: in each cycle the propagation step runs exactly once, and
\* only after all sites of the connection have been processed: a cycle
\* that has handled its sites has run one pass when it is over, and none
\* before.
C8_OncePerCycle ==
    \A uuid \in Connections :
       /\ (CycleOver(uuid) /\ cycle[uuid].done # EmptyMap) => cycle[uuid].passes = 1
       /\ cycle[uuid].passes > 0 => CycleOver(uuid)

\* C8 amended: the propagation step runs once for each site whose snapshot
\* is committed in the cycle, in the step of that commit (so before the
\* requests of the next site are sent), and at no other time: at every moment
\* of a cycle the passes run so far are as many as the sites committed so far.
C8_OncePerCommittedSite ==
    /\ [](\A uuid \in Connections :
             cycle[uuid].passes = Cardinality(CommittedSites(uuid)))
    /\ [][ \A uuid \in Connections :
              /\ \A id \in SiteIds :
                    (JoinsWithBoth(uuid, id) /\ poll'[uuid] # poll[uuid]) =>
                       /\ cycle'[uuid].passes = cycle[uuid].passes + 1
                       /\ lastPass'.ran /\ lastPass'.site = id
              /\ cycle'[uuid].passes > cycle[uuid].passes =>
                    \E id \in SiteIds :
                       /\ JoinsWithBoth(uuid, id)
                       /\ cycle'[uuid].passes = cycle[uuid].passes + 1 ]_vars

\* C8 witness: a cycle is over in which two sites were committed and two
\* passes ran.
C8_Witness ==
    \E uuid \in Connections :
       /\ CycleOver(uuid)
       /\ Cardinality(CommittedSites(uuid)) = 2
       /\ cycle[uuid].passes = 2
       /\ lastPass.ran /\ ~lastPass.threw


\* C9: for an authorised connection polling never stops.  Every step that
\* ends a cycle (after a failed site-list request, after the last site, or
\* after a propagation step that failed) schedules the next cycle after
\* 600000 ms; the timer starts that cycle; a cycle starts only when none is
\* running, so one chain of cycles exists; and an authorised connection always
\* has a cycle running or scheduled.
C9_PollingNeverStops ==
    /\ [](\A uuid \in Connections :
             /\ connections[uuid].authorised => poll[uuid].pc # "none"
             /\ poll[uuid].pc = "timer" => poll[uuid].delay = 10 * 60 * 1000)
    /\ [][ \A uuid \in Connections :
              /\ (poll[uuid].pc \in {"list", "fetch"} /\ poll'[uuid].pc \notin {"list", "fetch"})
                    => poll'[uuid].pc = "timer" /\ poll'[uuid].delay = 10 * 60 * 1000
              /\ (poll[uuid].pc = "timer" /\ poll'[uuid] # poll[uuid])
                    => poll'[uuid].pc = "list"
              /\ (poll'[uuid].pc = "list" /\ poll[uuid].pc # "list")
                    => poll[uuid].pc \in {"none", "timer"} ]_vars

\* C9 witness: a cycle whose propagation step failed is over, and the next
\* cycle is scheduled.
C9_Witness ==
    \E uuid \in Connections :
       /\ connections[uuid].authorised
       /\ cycle[uuid].passes >= 1
       /\ lastPass.ran /\ lastPass.threw
       /\ poll[uuid].pc = "timer"
       /\ poll[uuid].delay = 600000

\* C10: an authorisation failure is never terminal.  After launch an
\* unauthorised connection always has an authorisation request running or a
\* retry scheduled; a failed request is followed by a scheduled retry, and the
\* retry timer sends a request; and, with requests that succeed at some time,
\* the connection becomes authorised and its first cycle starts.
C10_FailureNeverTerminal ==
    /\ [](\A uuid \in Connections :
             (launched /\ connections[uuid].authorised = FALSE)
                => reconnect[uuid].pc \in {"connecting", "timer"})
    /\ [][ \A uuid \in Connections :
              /\ (reconnect[uuid].pc = "connecting" /\ reconnect'[uuid].pc # "connecting"
                  /\ connections'[uuid].authorised = FALSE)
                    => reconnect'[uuid].pc = "timer" /\ reconnect'[uuid].delay > 0
              /\ (reconnect[uuid].pc = "timer" /\ connections[uuid].authorised = FALSE
                  /\ reconnect'[uuid] # reconnect[uuid])
                    => reconnect'[uuid].pc = "connecting" ]_vars
    /\ \A uuid \in Connections :
          <>(connections[uuid].authorised = TRUE /\ poll[uuid].pc = "list")

\* C10 witness: a connection whose authorisation has failed several times in
\* a row is still unauthorised, with its next attempt scheduled.
C10_Witness ==
    \E uuid \in Connections :
       /\ connections[uuid].authorised = FALSE
       /\ failures[uuid] >= 3
       /\ reconnect[uuid].pc = "timer"
       /\ reconnect[uuid].delay = 60000


\* The state of connection uuid in the state machine of the ConnectionManager.
MachineState(uuid) ==
    IF connections[uuid].authorised = TRUE THEN "AUTHORIZED"
    ELSE IF reconnect[uuid].pc = "connecting" THEN "AUTHORIZING"
    ELSE "UNAUTHORIZED"

\* C11: a connection moves UNAUTHORIZED -> AUTHORIZING -> AUTHORIZED, a
\* failure in AUTHORIZING leads back to UNAUTHORIZED only, and AUTHORIZED is
\* never left: once the authorised flag is true it stays true and no
\* authorisation request is sent for the connection again, whatever its
\* polling cycles return.
C11_AuthorisedIsFinal ==
    /\ [][ \A uuid \in Connections :
              LET from == MachineState(uuid)
                  to == MachineState(uuid)'
              IN  /\ from = "UNAUTHORIZED" => to \in {"UNAUTHORIZED", "AUTHORIZING"}
                  /\ from = "AUTHORIZING" => to \in {"AUTHORIZING", "UNAUTHORIZED", "AUTHORIZED"}
                  /\ from = "AUTHORIZED" =>
                        /\ to = "AUTHORIZED"
                        /\ reconnect'[uuid].pc # "connecting" ]_vars
    /\ [](\A uuid \in Connections :
             connections[uuid].authorised = TRUE => reconnect[uuid].pc = "timer")

\* C11 witness: an authorised connection has ended a cycle in which both
\* requests of a site failed; it is still authorised, and its reconnect loop
\* waits on its 15000 ms timer.
C11_Witness ==
    \E uuid \in Connections :
       /\ connections[uuid].authorised = TRUE
       /\ poll[uuid].pc = "timer"
       /\ \E id \in DOMAIN cycle[uuid].done : cycle[uuid].done[id] = 0
       /\ reconnect[uuid].pc = "timer"
       /\ reconnectDelay[uuid] = 15000


\* The network attempts the followed call of fetchWrapper has made.
Attempts == Len(fetchCall.outcomes)

\* The followed call has ended: it returned or threw.
CallEnded == fetchCall.pc \in {"returned", "thrown", "undefined"}

\* Every attempt the followed call has made failed.
AllAttemptsFailed ==
    \A i \in DOMAIN fetchCall.outcomes : fetchCall.outcomes[i].outcome # "ok"

\* C12: a call with maxRetries = n >= 1 terminates and makes at most n
\* attempts: no attempt follows a success, a call that returned made its
\* last attempt with success, and a call all of whose attempts failed has
\* made exactly n of them when it ends.
C12_AtMostMaxRetriesAttempts ==
    /\ [](fetchCall.maxRetries >= 1 =>
             /\ Attempts <= fetchCall.maxRetries
             /\ \A i \in DOMAIN fetchCall.outcomes :
                   fetchCall.outcomes[i].outcome = "ok" =>
                      i = Attempts /\ fetchCall.pc = "returned"
             /\ fetchCall.pc = "returned" =>
                   Attempts >= 1 /\ fetchCall.outcomes[Attempts].outcome = "ok"
             /\ (CallEnded /\ AllAttemptsFailed) => Attempts = fetchCall.maxRetries)
    /\ <>CallEnded

\* C12 witness: a call with maxRetries = 3 has ended after three failed
\* attempts, the first by transport failure and the last by HTTP status.
C12_Witness ==
    /\ fetchCall.maxRetries = 3
    /\ fetchCall.pc = "thrown"
    /\ Attempts = 3
    /\ fetchCall.outcomes[1].outcome = "transport"
    /\ fetchCall.outcomes[3].outcome = "status"

\* C13: when every allowed attempt has failed the call throws and returns
\* no response; an error thrown after a last failure by HTTP status carries
\* that status as its code; and a call only ever returns a response whose
\* status is a success.
C13_ExhaustedRaises ==
    /\ (fetchCall.maxRetries >= 1 /\ CallEnded /\ AllAttemptsFailed)
          => fetchCall.pc = "thrown"
    /\ fetchCall.pc = "thrown" =>
          /\ Attempts >= 1
          /\ AllAttemptsFailed
          /\ fetchCall.outcomes[Attempts].outcome = "status" =>
                /\ fetchCall.hasCode
                /\ fetchCall.code = fetchCall.outcomes[Attempts].status
    /\ fetchCall.pc = "returned" =>
          /\ Attempts >= 1
          /\ fetchCall.outcomes[Attempts].outcome = "ok"

\* C13 witness: a call of two attempts, answered 401 and then 503, has
\* thrown an error with code 503.
C13_Witness ==
    /\ fetchCall.pc = "thrown"
    /\ Attempts = 2
    /\ fetchCall.outcomes[1].status = 401
    /\ fetchCall.outcomes[2].status = 503
    /\ fetchCall.hasCode /\ fetchCall.code = 503

\* 500, 1000, 2000, ...: 500 for the first retry, and twice the delay of the
\* retry before for every other.
RECURSIVE ClaimedRetryDelay(_)
ClaimedRetryDelay(k) == IF k = 1 THEN 500 ELSE 2 * ClaimedRetryDelay(k - 1)

\* C14: within one call the delay waited before retry number k is
\* 500 * 2^(k-1) ms (500, 1000, 2000, ...), and one delay is waited between
\* two attempts.
C14_RetryDelays ==
    /\ \A k \in DOMAIN fetchCall.delays : fetchCall.delays[k] = ClaimedRetryDelay(k)
    /\ fetchCall.pc = "wait" => Len(fetchCall.delays) = Attempts
    /\ fetchCall.pc \in {"attempt"} => Len(fetchCall.delays) = Attempts
    /\ fetchCall.pc \in {"returned", "thrown"} => Len(fetchCall.delays) = Attempts - 1

\* C14 witness: a call has waited 500, 1000 and 2000 ms before its second,
\* third and fourth attempt.
C14_Witness ==
    /\ fetchCall.delays = <<500, 1000, 2000>>
    /\ fetchCall.pc = "attempt"
    /\ Attempts = 3


\* The sites the site list of the current cycle of connection uuid holds, at
\* the join of one of them: those handled, and those still to fetch.
ListedSites(uuid) ==
    DOMAIN cycle[uuid].done \cup {poll[uuid].sites[i] : i \in DOMAIN poll[uuid].sites}

\* C15: a device that is gone from the upstream data gets no update.  A pass
\* of a cycle emits an update only for a record whose site is in the site
\* list of that cycle and whose serial is in the inventory cached for that
\* site; and a pass removes no tracked entry.  (A cycle that breaks this for
\* a site can be followed by cycles that never list the site again, which is
\* the case of the claim.)
C15_NoUpdateOnceGone ==
    [][ \A uuid \in Connections :
           cycle'[uuid].passes > cycle[uuid].passes =>
              /\ \A i \in DOMAIN lastPass'.calls :
                    LET c == lastPass'.calls[i]
                    IN  c.call = "update" =>
                           /\ c.deviceData.siteid \in ListedSites(uuid)
                           /\ c.deviceData.siteid \in DOMAIN rawData'
                           /\ \E j \in DOMAIN rawData'[c.deviceData.siteid].inventory.inverters :
                                 toUpperCase(rawData'[c.deviceData.siteid].inventory.inverters[j].SN)
                                    = c.deviceData.serialNumber
              /\ DOMAIN trackedDevices \subseteq DOMAIN trackedDevices' ]_vars


\* What is known of the request of url in the requests of the current site of
\* connection uuid: still running, failed, or the body it answered.
RequestState(p, url) ==
    [running |-> url \in p.pending,
     failed |-> url \in p.failed,
     body |-> IF url \in DOMAIN p.tempObject THEN <<p.tempObject[url]>> ELSE << >>]

\* C16: the two requests of a site run side by side and are joined.  When
\* the loop reaches a site both requests are started in the same step; the
\* end of one request, with whatever outcome, leaves the other as it was
\* (running, failed, or answered with its body); and the site is committed or
\* skipped only in a step taken when neither request is running.
C16_FetchesJoined ==
    [][ \A uuid \in Connections :
           LET p == poll[uuid]
               q == poll'[uuid]
           IN  /\ (q.pc = "fetch" /\ (p.pc # "fetch" \/ p.pending = {}) /\ q # p)
                     => q.pending = FETCHURLS /\ q.failed = {} /\ q.tempObject = EmptyMap
               /\ (p.pc = "fetch" /\ p.pending # {} /\ q # p) =>
                     /\ q.pc = "fetch" /\ q.sites = p.sites
                     /\ \E url \in p.pending :
                           /\ q.pending = p.pending \ {url}
                           /\ \A other \in FETCHURLS \ {url} :
                                 RequestState(q, other) = RequestState(p, other)
               /\ (cycle'[uuid].done # cycle[uuid].done /\ cycle'[uuid] # NoCycle)
                     => p.pc = "fetch" /\ p.pending = {}
               /\ \A id \in SiteIds :
                     (EntryChanged(id) /\ ~ShutdownStep)
                        => \E u \in Connections :
                              poll[u].pc = "fetch" /\ poll[u].pending = {} ]_vars

\* C16 witness: the inventory request of a site has failed, the power-flow
\* request of the same site has ended after it with a body, and the join has
\* not been taken yet.
C16_Witness ==
    \E uuid \in Connections :
       /\ poll[uuid].pc = "fetch"
       /\ poll[uuid].pending = {}
       /\ poll[uuid].failed = {"/inventory.json"}
       /\ DOMAIN poll[uuid].tempObject = {"/currentPowerFlow.json"}


\* C17: the sites of a cycle are handled independently.  While the requests
\* of a site run, the loop stays at that site; from the join of a site the
\* loop goes on to the sites after it, whatever the requests of the site
\* returned (only a propagation step that failed, after a commit, ends the
\* cycle); the join of a site with a failed request changes no snapshot;
\* and the join of a site with both bodies commits it, whatever happened to
\* the sites handled before it.
C17_SitesIndependent ==
    [][ \A uuid \in Connections :
           LET p == poll[uuid]
               q == poll'[uuid]
           IN  /\ (p.pc = "fetch" /\ q # p) =>
                     \/ p.pending # {} /\ q.pc = "fetch" /\ q.sites = p.sites
                     \/ p.pending = {} /\ q = NextSite(Tail(p.sites))
                     \/ /\ p.pending = {} /\ p.failed = {}
                        /\ lastPass'.threw /\ lastPass'.site = Head(p.sites)
                        /\ q = PollScheduled
               /\ (p.pc = "fetch" /\ p.pending = {} /\ p.failed # {} /\ q # p)
                     => rawData' = rawData
               /\ \A id \in SiteIds :
                     (JoinsWithBoth(uuid, id) /\ q # p) =>
                        /\ id \in DOMAIN rawData'
                        /\ rawData'[id] = Snapshot(uuid, id, p.tempObject)
                        /\ \A other \in DOMAIN rawData \ {id} :
                              other \in DOMAIN rawData' /\ rawData'[other] = rawData[other]
      ]_vars

\* C17 witness: a cycle over two sites is over; a request of site 2 failed,
\* and site 1 was committed in the cycle.
C17_Witness ==
    \E uuid \in Connections :
       /\ poll[uuid].pc = "timer"
       /\ DOMAIN cycle[uuid].done = {1, 2}
       /\ cycle[uuid].done[2] < 2
       /\ cycle[uuid].done[1] = 2
       /\ cycle[uuid].passes = 1
       /\ 1 \in DOMAIN rawData


\* The flow edges of the latest update of the inverter.
UpdateFlows ==
    LET powerflow == services.deviceData[1].powerflow
    IN  IF powerflow.hasConnections THEN powerflow.connections ELSE << >>

\* The latest update holds an edge between the nodes named from and to
\* (upper-case names), in whatever letter case the API spells them.
EdgePresent(from, to) ==
    \E i \in DOMAIN UpdateFlows :
       /\ toUpperCase(UpdateFlows[i].from) = from
       /\ toUpperCase(UpdateFlows[i].to) = to

\* C19: after a device update, with an edge from LOAD to GRID the charging
\* state is charging and the low-battery flag normal; with an edge from GRID
\* to LOAD it is not charging and the flag low; with neither it is not
\* charging and the flag is what it was before the update.
C19_ChargingStateFromFlows ==
    (services.updated /\ services.setup) =>
       LET exporting == EdgePresent(<<"L", "O", "A", "D">>, <<"G", "R", "I", "D">>)
           importing == EdgePresent(<<"G", "R", "I", "D">>, <<"L", "O", "A", "D">>)
       IN  /\ exporting => /\ services.chargingState = "CHARGING"
                           /\ services.statusLowBattery = "BATTERY_LEVEL_NORMAL"
           /\ importing => /\ services.chargingState = "NOT_CHARGING"
                           /\ services.statusLowBattery = "BATTERY_LEVEL_LOW"
           /\ (~exporting /\ ~importing) =>
                 /\ services.chargingState = "NOT_CHARGING"
                 /\ services.statusLowBattery = services.lowBefore

\* C19 witness: an inverter whose low-battery flag was low has been updated
\* with the edges PV -> Load and Load -> GRID: it is charging, the flag normal.
C19_Witness ==
    /\ services.updated /\ services.setup
    /\ services.lowBefore = "BATTERY_LEVEL_LOW"
    /\ Len(UpdateFlows) = 2
    /\ UpdateFlows[2] = Flow(<<"L", "o", "a", "d">>, <<"G", "R", "I", "D">>)
    /\ services.chargingState = "CHARGING"
    /\ services.statusLowBattery = "BATTERY_LEVEL_NORMAL"


\* The inverter of the cache that the record d was derived from.
InverterOf(d) ==
    LET inverters == rawData[d.siteid].inventory.inverters
    IN  inverters[CHOOSE j \in DOMAIN inverters :
                     toUpperCase(inverters[j].SN) = d.serialNumber]

\* C20: a record's description is the sanitized name of the inverter when
\* the site has no city, the sanitized city alone when the name is empty, and
\* "<name> - <city>", both sanitized, when both are non-empty.
C20_Description ==
    \A i \in DOMAIN lastPass.devices :
       LET d == lastPass.devices[i]
           name == InverterOf(d).name
           city == rawData[d.siteid].site.city
       IN  d.description =
              IF city = Undefined \/ city = << >> THEN makeHomeKitName(name)
              ELSE IF name = << >> THEN makeHomeKitName(city)
              ELSE makeHomeKitName(name) \o <<" ", "-", " ">> \o makeHomeKitName(city)


\* C21: name sanitization is idempotent: a call of makeHomeKitName on the
\* result of an earlier call returns that result unchanged.
C21_SanitizeIdempotent ==
    [][(homeKitName.calls >= 1 /\ homeKitName'.calls = homeKitName.calls + 1)
          => homeKitName'.name = homeKitName.name]_vars

\* C21 witness: a name with a leading space and full stop and a removed
\* character has been sanitized twice; the first call changed it.
C21_Witness ==
    /\ homeKitName.calls = 2
    /\ homeKitName.nameToMakeValid = <<" ", ".", "a", "#">>
    /\ homeKitName.name = <<"a">>


\* s without its characters outside chars.
RECURSIVE Without(_, _)
Without(s, chars) ==
    IF s = << >> THEN << >>
    ELSE (IF Head(s) \in chars THEN <<Head(s)>> ELSE << >>) \o Without(Tail(s), chars)

\* s from its first letter or digit to its last one.
Trimmed(s) ==
    LET alnum == {i \in DOMAIN s : IsLetter(s[i]) \/ IsNumber(s[i])}
    IN  IF alnum = {} THEN << >>
        ELSE SubSeq(s, CHOOSE i \in alnum : \A j \in alnum : i <= j,
                       CHOOSE i \in alnum : \A j \in alnum : i >= j)

\* The characters the claim lets through: letters, digits, the space, the
\* apostrophe U+2019, the full stop and the comma.
ClaimedNameChars ==
    Letters \cup {"0", "1", "2", "3", "4", "5", "6", "7", "8", "9"}
            \cup {" ", "u2019", ".", ","}

\* The result of the one call made is the argument without the characters
\* outside chars, trimmed to its first and last letter or digit: it has no
\* character outside chars and, if not empty, begins and ends with a letter
\* or a digit.
SanitizedAs(chars) ==
    homeKitName.calls = 1 =>
        LET name == homeKitName.name
        IN  /\ name = Trimmed(Without(homeKitName.nameToMakeValid, chars))
            /\ \A i \in DOMAIN name : name[i] \in chars
            /\ name # << >> =>
                  /\ IsLetter(name[1]) \/ IsNumber(name[1])
                  /\ IsLetter(name[Len(name)]) \/ IsNumber(name[Len(name)])

\* C22 as stated: the sanitized name is the name without every character that
\* is not a letter, a digit, a space, the apostrophe, '.' or ',', trimmed of
\* its leading and trailing characters that are no letter or digit.
C22_SanitizedAsClaimed == SanitizedAs(ClaimedNameChars)

\* C22, amended: the hyphen is let through as well; the rest is as stated.
C22_SanitizedKeepsHyphen == SanitizedAs(ClaimedNameChars \cup {"-"})

\* C22 witness: a name has lost its trailing full stop and has kept the
\* hyphen in it.
C22_Witness ==
    /\ homeKitName.calls = 1
    /\ homeKitName.nameToMakeValid = <<"a", "-", "7", ".">>
    /\ homeKitName.name = <<"a", "-", "7">>


\* The requests of endpoint url of site id sent in the current cycle.
RequestsOf(uuid, id, url) ==
    IF <<id, url>> \in DOMAIN cycle[uuid].requests
    THEN cycle[uuid].requests[<<id, url>>] ELSE 0

\* Site id has been handled in the current cycle and was skipped: one of its
\* requests failed.
Skipped(uuid, id) ==
    /\ id \in DOMAIN cycle[uuid].done
    /\ cycle[uuid].done[id] < Cardinality(FETCHURLS)

\* C23: a failed endpoint fetch is not retried within its cycle.  In a cycle
\* no endpoint of a site is requested more than once, each endpoint of a site
\* that is being fetched or has been handled was requested exactly once, also
\* when its request has failed, and the requests of a skipped site change only
\* when the timer starts the next cycle, which counts from zero.
C23_NoRetryWithinCycle ==
    /\ [](\A uuid \in Connections, id \in SiteIds, url \in FETCHURLS :
            /\ RequestsOf(uuid, id, url) <= 1
            /\ id \in DOMAIN cycle[uuid].done => RequestsOf(uuid, id, url) = 1
            /\ (poll[uuid].pc = "fetch" /\ Head(poll[uuid].sites) = id) =>
                  /\ RequestsOf(uuid, id, url) = 1
                  /\ url \in poll[uuid].failed => url \notin poll[uuid].pending)
    /\ [][\A uuid \in Connections, id \in SiteIds :
            (/\ Skipped(uuid, id)
             /\ \/ \E url \in FETCHURLS :
                      RequestsOf(uuid, id, url)' # RequestsOf(uuid, id, url)
                \/ /\ poll'[uuid].pc = "fetch"
                   /\ Head(poll'[uuid].sites) = id)
            => (poll[uuid].pc = "timer" /\ cycle'[uuid] = NoCycle)]_vars

\* C23 witness: in a cycle over the sites 1 and 2, site 1 was skipped after
\* both its requests had failed, and the chain is fetching site 2, one of
\* whose requests has failed as well.
C23_Witness ==
    \E uuid \in Connections :
        /\ 1 \in DOMAIN cycle[uuid].done
        /\ cycle[uuid].done[1] = 0
        /\ poll[uuid].pc = "fetch"
        /\ Head(poll[uuid].sites) = 2
        /\ poll[uuid].failed # {}
        /\ \A url \in FETCHURLS : RequestsOf(uuid, 1, url) = 1


\* #subscribeREST is called for the connection in this step: by reconnectLoop
\* after its await of #connect, or by the timer of the last cycle.
SubscribeInvoked(uuid) ==
    \/ reconnect[uuid].pc = "connecting" /\ reconnect'[uuid].pc # "connecting"
    \/ poll[uuid].pc = "timer" /\ poll'[uuid] # poll[uuid]

\* C24: when the aggregator is invoked for a connection whose authorised flag
\* is not true, it sends no site-list, inventory or power-flow request and
\* schedules no next cycle; a connection that is not authorised has no
\* request in flight, none counted, and no timer of a cycle.
C24_NothingUnlessAuthorised ==
    /\ [][\A uuid \in Connections :
            (SubscribeInvoked(uuid) /\ connections'[uuid].authorised # TRUE) =>
                /\ poll'[uuid].pc = "none"
                /\ cycle'[uuid].requests = EmptyMap]_vars
    /\ [](\A uuid \in Connections :
            connections[uuid].authorised # TRUE =>
                /\ poll[uuid] = NoPoll
                /\ cycle[uuid].requests = EmptyMap)

\* C24 witness: reconnectLoop has called #subscribeREST twice after a failed
\* authorisation; the connection is not authorised and has no chain.
C24_Witness ==
    \E uuid \in Connections :
        /\ failures[uuid] = 2
        /\ reconnect[uuid].pc = "timer"
        /\ connections[uuid].authorised = FALSE
        /\ poll[uuid] = NoPoll


\* The eveHistory of the entry of config.devices for the serial number, if
\* there is one, is true.
OverrideTrue(serial) ==
    \E key \in DOMAIN config.devices : key = serial /\ config.devices[key] = TRUE

\* C25: the eveHistory of a derived record is true if the option of the
\* account is true, true if the entry of its serial number says true, and
\* false if the option is false and that entry is absent or does not say true.
C25_EveHistory ==
    (lastPass.ran /\ ~lastPass.threw) =>
        \A i \in DOMAIN lastPass.devices :
            LET d == lastPass.devices[i]
            IN  /\ config.options.eveHistory = TRUE => d.eveHistory = TRUE
                /\ OverrideTrue(d.serialNumber) => d.eveHistory = TRUE
                /\ (config.options.eveHistory = FALSE /\ ~OverrideTrue(d.serialNumber))
                      => d.eveHistory = FALSE

\* C25 witness: with the option false and an entry for A1 that says true, one
\* pass has derived A1 with eveHistory true and B2 with eveHistory false.
C25_Witness ==
    /\ lastPass.ran /\ ~lastPass.threw
    /\ config.options.eveHistory = FALSE
    /\ DOMAIN config.devices = {<<"A", "1">>}
    /\ \E i, j \in DOMAIN lastPass.devices :
          /\ lastPass.devices[i].serialNumber = <<"A", "1">>
          /\ lastPass.devices[i].eveHistory = TRUE
          /\ lastPass.devices[j].serialNumber = <<"B", "2">>
          /\ lastPass.devices[j].eveHistory = FALSE


\* C26: a connection never has more than one polling chain.  At most one
\* #connect is in flight for it, and it is the one reconnectLoop waits for;
\* at most one #subscribeREST chain is alive for it, and it is the one that is
\* running or waiting for its timer.
C26_OneChain ==
    \A uuid \in Connections :
        /\ chains[uuid].connects <= 1
        /\ chains[uuid].polls <= 1
        /\ chains[uuid].connects = 1 <=> reconnect[uuid].pc = "connecting"
        /\ chains[uuid].polls = 1 <=> poll[uuid].pc \in {"list", "fetch", "timer"}

\* C26 witness: for an authorised connection the timer of reconnectLoop is
\* pending while its one chain, after a pass, is fetching the next site.
C26_Witness ==
    \E uuid \in Connections :
        /\ connections[uuid].authorised = TRUE
        /\ chains[uuid] = [connects |-> 0, polls |-> 1]
        /\ reconnect[uuid].pc = "timer"
        /\ poll[uuid].pc = "fetch"
        /\ cycle[uuid].passes = 1


\* C27: the authorised flag of a connection becomes true only in the step in
\* which its authorisation request ends with a success status and a body
\* that decodes; a request that ends in a transport failure, a non-success
\* status or a body that does not decode leaves the flag false.
C27_AuthorisedOnlyOnSuccess ==
    /\ [][\A uuid \in Connections :
            (connections[uuid].authorised # TRUE /\ connections'[uuid].authorised = TRUE)
                => ConnectDone(uuid, "ok")]_vars
    /\ [][\A uuid \in Connections, outcome \in FetchOutcomes \ {"ok"} :
            ConnectDone(uuid, outcome) => connections'[uuid].authorised = FALSE]_vars

\* C27 witness: the authorisation request has just ended with success: the
\* flag is true and the site-list request of the first cycle is in flight.
C27_Witness ==
    \E uuid \in Connections :
        /\ connections[uuid].authorised = TRUE
        /\ failures[uuid] = 0
        /\ poll[uuid].pc = "list"
        /\ cycle[uuid] = NoCycle
        /\ reconnect[uuid] = [pc |-> "timer", delay |-> 15000]


\* The shutdown handler has run.
ShutDown == launched /\ ~eventEmitter

\* A timer starts an authorisation attempt or an aggregation cycle in the step.
TimerStarts(uuid) ==
    \/ reconnect[uuid].pc = "timer" /\ reconnect'[uuid].pc = "connecting"
    \/ poll[uuid].pc = "timer" /\ poll'[uuid].pc = "list"

\* A snapshot is committed to the cache in the step.
Commits == \E id \in SiteIds : EntryChanged(id) /\ id \in DOMAIN rawData'

\* instantiate is called in the step.
Instantiates ==
    /\ lastPass' # lastPass
    /\ \E i \in DOMAIN lastPass'.calls : lastPass'.calls[i].call = "instantiate"

\* An update event is emitted in the step.
EmitsUpdate ==
    /\ lastPass' # lastPass
    /\ \E i \in DOMAIN lastPass'.calls : lastPass'.calls[i].call = "update"

\* C28 (as claimed): after the shutdown handler has run the platform is
\* quiescent.  No timer starts an authorisation attempt or an aggregation
\* cycle, no snapshot is committed to the cleared cache, instantiate is not
\* called, for no serial a second time, and no update event is emitted.
C28_QuiescentAfterShutdown ==
    [][ShutDown =>
          /\ \A uuid \in Connections : ~TimerStarts(uuid)
          /\ ~Commits
          /\ ~Instantiates
          /\ \A serial \in DOMAIN instantiated' : instantiated'[serial] <= 1
          /\ ~EmitsUpdate]_vars


\* The calls of the pass made in the step, if #processPostSubscribe has run
\* in it.
PassCalls ==
    IF \E uuid \in Connections : cycle'[uuid].passes > cycle[uuid].passes
    THEN lastPass'.calls ELSE << >>

\* C29 (as claimed): every update event of a pass is addressed to an identity
\* that an instantiate call has returned, in an earlier pass or earlier in the
\* same pass, and every instantiate call of a pass is followed in that pass
\* by an update event for the identity it returned.
C29_UpdatesFollowInstantiate ==
    [][\A i \in DOMAIN PassCalls :
          LET c == PassCalls[i]
          IN  /\ c.call = "update" =>
                    \/ \E serial \in DOMAIN instantiated :
                          /\ instantiated[serial] >= 1
                          /\ generateUUID(serial) = c.uuid
                    \/ \E j \in 1..(i - 1) :
                          /\ PassCalls[j].call = "instantiate"
                          /\ PassCalls[j].uuid = c.uuid
              /\ c.call = "instantiate" =>
                    \E j \in (i + 1)..Len(PassCalls) :
                          /\ PassCalls[j].call = "update"
                          /\ PassCalls[j].uuid = c.uuid]_vars


\* C30: the battery level set by an update is a number from 0 to 100, for a
\* PV currentPower below zero, within the range and above the peak power, and
\* for a peak power that is zero or more: 0 for a power of zero or less and
\* for a peak power of zero, 100 for a power of the peak power or more.
C30_BatteryLevelInRange ==
    (services.updated /\ services.setup) =>
        LET level == services.batteryLevel
            deviceData == services.deviceData[1]
            power == deviceData.powerflow.PV.currentPower
        IN  /\ ~level.isNaN
            /\ level.den > 0
            /\ 0 <= level.num
            /\ level.num <= 100 * level.den
            /\ (power <= 0 \/ deviceData.peakPower = 0) => level.num = 0
            /\ (deviceData.peakPower > 0 /\ power >= deviceData.peakPower)
                  => level.num = 100 * level.den

\* C30 witness: an inverter of a site with peak power 0 has been updated with
\* a PV currentPower above zero; its battery level is 0.
C30_Witness ==
    /\ services.updated /\ services.setup
    /\ services.deviceData[1].peakPower = 0
    /\ services.deviceData[1].powerflow.PV.currentPower = 60000
    /\ services.batteryLevel = [isNaN |-> FALSE, num |-> 0, den |-> 1]

=============================================================================
